---- MODULE Spec2Model ----
(***************************************************************************)
(* Progressive image loader of the portfolio site                          *)
(* (src/assets/js/image-loader.js, class ImageLoader).                     *)
(*                                                                         *)
(* The browser is an event loop: every action below is one task (an        *)
(* observer callback, a probe's onload/onerror, a timer, an error event, a *)
(* public method call) run to completion, followed by the MutationObserver *)
(* microtask it queued.  Handlers are written as operators on a record of  *)
(* the whole loader + DOM state, so that a handler that calls another      *)
(* handler is the composition of the two operators.                        *)
(*                                                                         *)
(* The lightbox (class Modal), the contact form (class ContactForm), the  *)
(* navigation (class Navigation) and the gallery (class Gallery, with the  *)
(* collection cards of PortfolioApp) follow, each with its own variables   *)
(* and its own specification; the actions of one component leave the       *)
(* variables of the others unchanged, except that viewCollection scrolls   *)
(* the page the navigation watches.                                        *)
(***************************************************************************)
EXTENDS Integers, Sequences, FiniteSets, Bags, TLC

\* ------------------------------------------------------------------ bounds
MaxCalls == 1           \* calls of the loader's public methods by the page
MaxModalCalls == 3      \* calls of Modal.open and Modal.close that pass their guard
MaxPreloads == 2        \* preloads in flight when the lightbox is navigated
MaxSubmits == 2         \* submissions of the contact form that pass validation
MaxScrolls == 2         \* scrollToSection calls whose 900 ms timer is pending
MaxFocusTimers == 1     \* pending focus timers of openMobileMenu
MaxAdded == 5           \* artwork added to the gallery by addArtwork
MaxViews == 1           \* pending 100 ms timers of viewCollection
MaxAnnouncements == 1   \* aria-live elements of the gallery in the body

\* --------------------------------------------------------- program constants
maxRetries == 3
itemsPerPage == 6

\* ------------------------------------------------------------------- URLs
\* "" is the absent attribute.  "ext" is an external reference that is a key
\* of imageMap, "ext?w" one that only matches a key up to its query string,
\* "raw" one that matches nothing.
NoUrl == ""

imageMap ==
  << [key |-> "ext",
      webp |-> "g.webp", jpg |-> "g.jpg", fallback |-> "g.svg"],
     [key |-> "ext?crop",
      webp |-> "c.webp", jpg |-> "c.jpg", fallback |-> "c.svg"] >>

NoFormats == [webp |-> NoUrl, jpg |-> NoUrl, fallback |-> NoUrl]

\* externalUrl.split('?')[0]
SplitQuery(url) ==
  CASE url = "ext?crop" -> "ext"
    [] url = "ext?w"    -> "ext"
    [] OTHER            -> url

\* src.includes(base), for the URLs of the model
Includes(src, base) == SplitQuery(src) = base

EntryFormats(e) == [webp |-> e.webp, jpg |-> e.jpg, fallback |-> e.fallback]

\* The lookup of replaceExternalImages: the exact key first, else the first
\* entry, in the order of the table, whose query-less key src includes.
\* NoFormats when nothing matches.
LookupImageMap(src) ==
  LET exact   == {k \in 1..Len(imageMap) : imageMap[k].key = src}
      partial == {k \in 1..Len(imageMap) :
                    src # NoUrl /\ Includes(src, SplitQuery(imageMap[k].key))}
      Least(S) == CHOOSE k \in S : \A j \in S : k <= j
  IN  IF exact # {} THEN EntryFormats(imageMap[Least(exact)])
      ELSE IF partial # {} THEN EntryFormats(imageMap[Least(partial)])
      ELSE NoFormats

\* -------------------------------------------------------------- the markup
\* What the page says about one img: its data-src and src attributes, whether
\* it has class lazy-load, the recognised classes of its ancestors (innermost
\* first) and whether it had finished loading (img.complete) when the loader
\* was constructed.
CardClasses == {"artwork-card", "collection-card", "about"}

\* An artwork card of the gallery: <img data-src=...> whose reference matches
\* a key of imageMap up to its query string.
Artwork ==
  [dataSrc |-> "ext?w", src0 |-> NoUrl, lazy |-> FALSE, complete |-> TRUE,
   anc |-> <<"artwork-card">>]

\* A lazy img whose reference matches no key of imageMap.
Unmapped ==
  [dataSrc |-> "raw", src0 |-> NoUrl, lazy |-> TRUE, complete |-> TRUE,
   anc |-> <<>>]

\* An img with class lazy-load and a src that matches no key of imageMap.
Plain ==
  [dataSrc |-> NoUrl, src0 |-> "raw", lazy |-> TRUE, complete |-> FALSE,
   anc |-> <<>>]

\* The pages of the model: the imgs of each, in document order.
Pages == { <<Artwork>>, <<Plain>>, <<Unmapped>> }

\* A page with two imgs that share their reference.
SharedPages == { <<Plain, Plain>> }

\* The img of Plain inside containers of the recognised classes, innermost
\* first.
Card(anc) == [Plain EXCEPT !.anc = anc]

Contexts ==
  { <<>>, <<"collection-card">>, <<"about">>,
    <<"artwork-card", "collection-card">>,
    <<"collection-card", "artwork-card">>,
    <<"about", "artwork-card">> }

\* Pages with an img in each of the contexts and a second img of the same
\* reference outside of them.
ContextPages == { <<Card(a), Plain>> : a \in Contexts }

HasAncestor(m, c) == \E k \in 1..Len(m.anc) : m.anc[k] = c

\* ------------------------------------------------------------------- state
VARIABLES
  markup,         \* the page: img -> its markup (never changes)
  inDoc,          \* img -> is it in the document
  src,            \* img -> img.src
  dataset,        \* img -> [webp, jpg, fallback] of img.dataset
  observedFlag,   \* img -> img.dataset.observed is set
  wrapped,        \* img -> its parent is an .image-container
  imgClass,       \* img -> classes of the img among loading/loaded/error/fade-in
  contClass,      \* img -> classes of its container (when wrapped)
  alt,            \* img -> img.alt: "page" stands for the text of the markup
  live,           \* img -> "idle" | "pending": the element's own fetch of src
  ioObserved,     \* img -> target of the lazy IntersectionObserver
  loadingImages,  \* this.loadingImages
  loadedImages,   \* this.loadedImages
  failedImages,   \* this.failedImages
  retryAttempts,  \* this.retryAttempts, a function on the keys it holds
  listeners,      \* number of document 'error' listeners installed
  probes,         \* bag of off-DOM probes in flight
  timers,         \* bag of timers pending
  calls,          \* calls of the public loading methods made so far
  retryPasses,    \* history: img -> passes started by a retry timer (<= maxRetries + 1)
  failCount,      \* history: img -> handleImageError calls for it since the reset
  lazyFired       \* history: img -> times the lazy callback loaded it (<= 2)

loaderVars ==
  << markup, inDoc, src, dataset, observedFlag, wrapped, imgClass,
     contClass, alt, live, ioObserved, loadingImages,
     loadedImages, failedImages, retryAttempts, listeners, probes,
     timers, calls, retryPasses, failCount, lazyFired >>

\* The lightbox (modal.js, class Modal) and what it touches of the page.
VARIABLES
  isOpen,                    \* this.isOpen
  currentGallery,            \* this.currentGallery, a sequence of artworks
  currentIndex,              \* this.currentIndex, counted from 0
  currentArtwork,            \* this.currentArtwork, NoArtwork for null
  focusTrap,                 \* this.focusTrap holds a cleanup function
  previouslyFocusedElement,  \* "" for null, else the element
  ariaHidden,                \* aria-hidden of #lightbox-modal
  display,                   \* style.display of #lightbox-modal
  modalOpenClass,            \* #lightbox-modal has class modal--open
  bodyPosition,              \* document.body.style.position (top and width follow it)
  activeElement,             \* document.activeElement: "page" or "modal"
  trapListeners,             \* keydown listeners installed by trapFocus
  modalImage,                \* [src, alt, opacity] of #modal-image
  preloads,                  \* bag of artworks whose full-size image is being preloaded
  modalTimers,               \* pending timers and animation frames of the modal, in the order set
  modalCalls,                \* calls of open and close that passed their guard
  navButtons,                \* style.display of #modal-prev and #modal-next
  preloadFailed              \* history: a preload of the lightbox has failed

modalVars ==
  << isOpen, currentGallery, currentIndex, currentArtwork, focusTrap,
     previouslyFocusedElement, ariaHidden, display, modalOpenClass,
     bodyPosition, activeElement, trapListeners, modalImage, preloads,
     modalTimers, modalCalls, navButtons, preloadFailed >>

\* The contact form (form.js, class ContactForm).
VARIABLES
  fields,          \* this.fields: name -> the field's state, its input and its error UI
  isSubmitting,    \* this.isSubmitting
  submitDisabled,  \* this.submitButton.disabled
  submission,      \* submitForm calls whose promise is pending
  status,          \* [type, text, display] of #form-status
  statusTimers,    \* pending 10 s timers of showStatus
  debounced,       \* fields whose debounced validation is pending
  formFocus,       \* the field that has the focus, "" when none of the form
  submits,         \* submissions accepted so far
  lastResult       \* history: name -> the latest validateField call (the value
                   \* it validated, its result and its error message) and
                   \* whether resetForm has run since that call

formVars ==
  << fields, isSubmitting, submitDisabled, submission, status, statusTimers,
     debounced, formFocus, submits, lastResult >>

\* The navigation (class Navigation) and the DOM state it writes.
VARIABLES
  mobileToggle,        \* whether the page has a .navbar__toggle
  currentSection,      \* this.currentSection
  isScrolling,         \* this.isScrolling
  lastScrollY,         \* this.lastScrollY, as a position of the page
  position,            \* window.pageYOffset: the element the page is scrolled to
  inThrottle,          \* inThrottle of throttledScroll
  desktopActive,       \* links of the navbar with the active class and aria-current
  mobileActive,        \* links of the mobile menu with them
  menuActive,          \* the mobile menu has class active
  menuAriaHidden,      \* aria-hidden of the mobile menu
  toggleAriaExpanded,  \* aria-expanded of the toggle
  bodyOverflow,        \* document.body.style.overflow
  navFocus,            \* the element the navigation focused last
  innerWidth,          \* window.innerWidth
  animations,          \* smoothScrollTo animations running, oldest first
  flagTimers,          \* 900 ms timers of scrollToSection whose animation has
                       \* ended (that of a running animation is pending too)
  focusTimers,         \* pending 100 ms timers of openMobileMenu
  resizeTimer          \* the 250 ms timer of debouncedResize is pending

navVars ==
  << mobileToggle, currentSection, isScrolling, lastScrollY, position,
     inThrottle, desktopActive, mobileActive, menuActive, menuAriaHidden,
     toggleAriaExpanded, bodyOverflow, navFocus, innerWidth, animations,
     flagTimers, focusTimers, resizeTimer >>

\* The gallery (class Gallery), the DOM state it writes, and the timers of
\* PortfolioApp.viewCollection.
VARIABLES
  allArtwork,       \* this.artwork (artwork names one image in the lightbox)
  filteredArtwork,  \* this.filteredArtwork
  currentFilter,    \* this.currentFilter
  currentPage,      \* this.currentPage
  maxPages,         \* this.maxPages
  galleryGrid,      \* the cards of #gallery-grid, each as the artwork it shows
  loadMoreBtn,      \* [display, count] of #load-more-btn: 'Load count More'
  activeFilter,     \* data-filter of the button with class filter-btn--active
  announcements,    \* aria-live elements of announceFilterChange in the body
  scrollAdjust      \* pending 100 ms timers of viewCollection

galleryVars ==
  << allArtwork, filteredArtwork, currentFilter, currentPage, maxPages,
     galleryGrid, loadMoreBtn, activeFilter, announcements >>

\* What the actions of one component leave alone.
outsideLoader == << modalVars, formVars, navVars, galleryVars, scrollAdjust >>

outsideModal == << loaderVars, formVars, navVars, galleryVars, scrollAdjust >>

outsideForm == << loaderVars, modalVars, navVars, galleryVars, scrollAdjust >>

outsideNav == << loaderVars, modalVars, formVars, galleryVars, scrollAdjust >>

outsideGallery == << loaderVars, modalVars, formVars, navVars, scrollAdjust >>

vars == << loaderVars, modalVars, formVars, navVars, galleryVars, scrollAdjust >>

\* The state as one record; mut is the queue of elements the MutationObserver
\* has seen re-parented or inserted in the running task.
Cur ==
  [ inDoc |-> inDoc, src |-> src, dataset |-> dataset,
    observedFlag |-> observedFlag, wrapped |-> wrapped, imgClass |-> imgClass,
    contClass |-> contClass, alt |-> alt, live |-> live,
    ioObserved |-> ioObserved,
    loadingImages |-> loadingImages, loadedImages |-> loadedImages,
    failedImages |-> failedImages, retryAttempts |-> retryAttempts,
    listeners |-> listeners, probes |-> probes, timers |-> timers,
    calls |-> calls,
    retryPasses |-> retryPasses, failCount |-> failCount, lazyFired |-> lazyFired,
    mut |-> <<>> ]

\* The img elements of the page, numbered in document order.
Imgs == DOMAIN markup

Min(a, b) == IF a < b THEN a ELSE b

Pow2(n) == CASE n = 0 -> 1 [] n = 1 -> 2 [] n = 2 -> 4 [] n = 3 -> 8 [] OTHER -> 16

EmptyMap == [k \in {} |-> 0]

\* ---------------------------------------------------------------- handlers
\* ensureImageContainer(img): wraps the img in a new div.image-container.loading
\* unless its parent is one already.  The insertion is seen by the
\* MutationObserver installed on document.body.
ensureImageContainer(s, i) ==
  IF s.wrapped[i] THEN s
  ELSE [s EXCEPT !.wrapped[i] = TRUE,
                 !.contClass[i] = {"loading"},
                 !.mut = Append(@, i)]

\* Mutant of getContextualPlaceholder: the artwork card is looked for before
\* the collection card.
getContextualPlaceholderArtworkFirst(i) ==
  IF HasAncestor(markup[i], "artwork-card")
    THEN "artwork-placeholder.svg"
  ELSE IF HasAncestor(markup[i], "collection-card")
    THEN "collection-placeholder.svg"
  ELSE IF HasAncestor(markup[i], "about")
    THEN "avatar-placeholder.svg"
  ELSE "image-error.svg"

\* getContextualPlaceholder(img): closest() is tried class by class.
getContextualPlaceholder(i) ==
  IF HasAncestor(markup[i], "collection-card")
    THEN "collection-placeholder.svg"
  ELSE IF HasAncestor(markup[i], "artwork-card")
    THEN "artwork-placeholder.svg"
  ELSE IF HasAncestor(markup[i], "about")
    THEN "avatar-placeholder.svg"
  ELSE "image-error.svg"

\* const originalSrc = img.dataset.src || img.src
OriginalSrc(s, i) ==
  IF markup[i].dataSrc # NoUrl THEN markup[i].dataSrc ELSE s.src[i]

\* this.retryAttempts.get(originalSrc) || 0
RetryCount(s, key) ==
  IF key \in DOMAIN s.retryAttempts THEN s.retryAttempts[key] ELSE 0

\* Mutant of MayRetry: the comparison lets one retry too many through.
MayRetryOnceMore(retryCount) == retryCount <= maxRetries

\* if (retryCount < this.maxRetries)
MayRetry(retryCount) == retryCount < maxRetries

\* Mutant of RetryDelay: the delay grows by one second per retry.
RetryDelayLinear(retryCount) == (retryCount + 1) * 1000

\* Math.pow(2, retryCount) * 1000
RetryDelay(retryCount) == Pow2(retryCount) * 1000

\* Mutant of handleImageError: the final error state leaves the img in
\* loadingImages and the loading classes on its container.
handleImageErrorStillLoading(s, i) ==
  LET s1  == ensureImageContainer(s, i)
      key == OriginalSrc(s1, i)
      s2  == [s1 EXCEPT !.failedImages = @ \cup {key},
                        !.failCount[i] = Min(@ + 1, maxRetries + 1)]
      retryCount == RetryCount(s2, key)
  IN  IF MayRetry(retryCount)
        THEN [s2 EXCEPT
                !.retryAttempts =
                   [k \in DOMAIN @ \cup {key} |->
                      IF k = key THEN retryCount + 1 ELSE @[k]],
                !.timers = @ (+) SetToBag({[kind |-> "retry", img |-> i,
                                            delay |-> RetryDelay(retryCount)]})]
        ELSE [s2 EXCEPT
                !.imgClass[i] = (@ \ {"loading"}) \cup {"error"},
                !.contClass[i] = @ \cup {"error"},
                !.src[i] = getContextualPlaceholder(i),
                !.live[i] = "pending",
                !.alt[i] = "Image temporarily unavailable"]

\* handleImageError(img)
handleImageError(s, i) ==
  LET s1  == ensureImageContainer(s, i)
      key == OriginalSrc(s1, i)
      s2  == [s1 EXCEPT !.failedImages = @ \cup {key},
                        !.failCount[i] = Min(@ + 1, maxRetries + 1)]
      retryCount == RetryCount(s2, key)
  IN  IF MayRetry(retryCount)
        THEN [s2 EXCEPT
                !.retryAttempts =
                   [k \in DOMAIN @ \cup {key} |->
                      IF k = key THEN retryCount + 1 ELSE @[k]],
                !.timers = @ (+) SetToBag({[kind |-> "retry", img |-> i,
                                            delay |-> RetryDelay(retryCount)]})]
        ELSE [s2 EXCEPT
                !.imgClass[i] = (@ \ {"loading"}) \cup {"error"},
                !.contClass[i] = (@ \ {"loading", "image-loading"}) \cup {"error"},
                !.src[i] = getContextualPlaceholder(i),
                !.live[i] = "pending",
                !.alt[i] = "Image temporarily unavailable",
                !.loadingImages = @ \ {i}]

\* markImageLoaded(img, container); the 50 ms timer adds fade-in, and a second
\* such timer for the same img changes nothing the first does not.
markImageLoaded(s, i) ==
  LET fade == [kind |-> "fade", img |-> i, delay |-> 50]
  IN  [s EXCEPT
         !.imgClass[i] = (@ \ {"loading"}) \cup {"loaded"},
         !.contClass[i] = (@ \ {"loading", "image-loading"}) \cup {"loaded"},
         !.timers = IF BagIn(fade, @) THEN @ ELSE @ (+) SetToBag({fade})]

\* Mutant of NextIndex: a failed candidate makes the pass skip the next one.
SkipIndex(index) == index + 2

\* The index probed after candidate number index has failed.
NextIndex(index) == index + 1

\* tryLoadFormats(img, container, formats, index), index from 1
tryLoadFormats(s, i, formats, index) ==
  IF index > Len(formats) THEN handleImageError(s, i)
  ELSE [s EXCEPT !.probes = @ (+) SetToBag({[kind |-> "format", img |-> i,
                                              formats |-> formats,
                                              index |-> index]})]

\* [dataset.webp, dataset.jpg, dataset.fallback, dataset.src, src].filter(Boolean)
FormatList(s, i) ==
  SelectSeq(<< s.dataset[i].webp, s.dataset[i].jpg, s.dataset[i].fallback,
               markup[i].dataSrc, s.src[i] >>,
            LAMBDA u : u # NoUrl)

\* if (this.loadingImages.has(img)) return
PassGuard(s, i) == i \in s.loadingImages

\* loadImageProgressive(img)
loadImageProgressive(s, i) ==
  IF PassGuard(s, i) THEN s
  ELSE LET s1 == [s EXCEPT !.loadingImages = @ \cup {i}]
           s2 == ensureImageContainer(s1, i)
       IN  tryLoadFormats(s2, i, FormatList(s2, i), 1)

\* replaceImageWithProgressive(img, formats)
replaceImageWithProgressive(s, i, formats) ==
  LET s1 == ensureImageContainer(s, i)
      s2 == [s1 EXCEPT
               !.dataset[i] = IF formats.webp # NoUrl THEN formats
                              ELSE [@ EXCEPT !.fallback = "[object Object]"],
               !.contClass[i] = @ \cup {"loading", "image-loading"},
               !.imgClass[i] = @ \cup {"loading"}]
  IN  loadImageProgressive(s2, i)

\* The body of replaceExternalImages' forEach for one img.
ReplaceOne(s, i) ==
  LET ref     == IF s.src[i] # NoUrl THEN s.src[i] ELSE markup[i].dataSrc
      formats == LookupImageMap(ref)
  IN  IF s.inDoc[i] /\ formats # NoFormats
        THEN replaceImageWithProgressive(s, i, formats)
        ELSE s

RECURSIVE ReplaceFrom(_, _)
ReplaceFrom(s, i) ==
  IF i \notin Imgs THEN s ELSE ReplaceFrom(ReplaceOne(s, i), i + 1)

\* replaceExternalImages(): document.querySelectorAll('img'), in document order
replaceExternalImages(s) == ReplaceFrom(s, 1)

\* Mutant of observeNewImage: the img is flagged but not handed to the lazy
\* observer.
observeNewImageUnregistered(s, i) ==
  IF s.observedFlag[i] THEN s
  ELSE replaceExternalImages([s EXCEPT !.observedFlag[i] = TRUE])

\* observeNewImage(img)
observeNewImage(s, i) ==
  IF s.observedFlag[i] THEN s
  ELSE replaceExternalImages(
         [s EXCEPT !.observedFlag[i] = TRUE, !.ioObserved[i] = TRUE])

RECURSIVE ObserveAll(_, _)
ObserveAll(s, batch) ==
  IF batch = <<>> THEN s
  ELSE ObserveAll(observeNewImage(s, Head(batch)), Tail(batch))

\* The MutationObserver callback of setupPerformanceMonitoring, run as a
\* microtask after the task that changed the DOM, until no record is left.
RECURSIVE DrainMutations(_)
DrainMutations(s) ==
  IF s.mut = <<>> THEN s
  ELSE DrainMutations(ObserveAll([s EXCEPT !.mut = <<>>], s.mut))

\* ------------------------------------------------------------ construction
\* setupLazyLoading() for one img: the two querySelectorAll loops.
LazySetupOne(s, i) ==
  LET m      == markup[i]
      first  == m.dataSrc # NoUrl \/ m.lazy
      inCard == \E c \in CardClasses : HasAncestor(m, c)
      second == inCard /\ ~m.complete /\ ~s.observedFlag[i]
  IN  IF ~s.inDoc[i] THEN s
      ELSE [s EXCEPT !.observedFlag[i] = @ \/ second,
                     !.ioObserved[i] = first \/ second]

RECURSIVE LazySetupFrom(_, _)
LazySetupFrom(s, i) ==
  IF i \notin Imgs THEN s ELSE LazySetupFrom(LazySetupOne(s, i), i + 1)

setupLazyLoading(s) == LazySetupFrom(s, 1)

\* setupErrorHandling(): one more capturing 'error' listener on document
setupErrorHandling(s) == [s EXCEPT !.listeners = @ + 1]

\* The state new ImageLoader() leaves for a page mk whose imgs d are in the
\* document; the MutationObserver is installed after the constructor returns
\* and sees none of its DOM changes.
Constructed(mk, d) ==
  LET s0 == [ inDoc |-> [i \in DOMAIN mk |-> i \in d],
              src |-> [i \in DOMAIN mk |-> mk[i].src0],
              dataset |-> [i \in DOMAIN mk |-> NoFormats],
              observedFlag |-> [i \in DOMAIN mk |-> FALSE],
              wrapped |-> [i \in DOMAIN mk |-> FALSE],
              imgClass |-> [i \in DOMAIN mk |-> {}],
              contClass |-> [i \in DOMAIN mk |-> {}],
              alt |-> [i \in DOMAIN mk |-> "page"],
              live |-> [i \in DOMAIN mk |->
                          IF mk[i].src0 # NoUrl /\ ~mk[i].complete
                            THEN "pending" ELSE "idle"],
              ioObserved |-> [i \in DOMAIN mk |-> FALSE],
              loadingImages |-> {}, loadedImages |-> {}, failedImages |-> {},
              retryAttempts |-> EmptyMap, listeners |-> 0,
              probes |-> EmptyBag, timers |-> EmptyBag, calls |-> 0,
              retryPasses |-> [i \in DOMAIN mk |-> 0],
              failCount |-> [i \in DOMAIN mk |-> 0],
              lazyFired |-> [i \in DOMAIN mk |-> 0],
              mut |-> <<>> ]
      s1 == setupErrorHandling(replaceExternalImages(setupLazyLoading(s0)))
  IN  [s1 EXCEPT !.mut = <<>>]

\* The variables take the fields of s.
Is(s) ==
  /\ inDoc = s.inDoc /\ src = s.src /\ dataset = s.dataset
  /\ observedFlag = s.observedFlag /\ wrapped = s.wrapped
  /\ imgClass = s.imgClass /\ contClass = s.contClass /\ alt = s.alt
  /\ live = s.live /\ ioObserved = s.ioObserved
  /\ loadingImages = s.loadingImages /\ loadedImages = s.loadedImages
  /\ failedImages = s.failedImages /\ retryAttempts = s.retryAttempts
  /\ listeners = s.listeners /\ probes = s.probes /\ timers = s.timers
  /\ calls = s.calls
  /\ retryPasses = s.retryPasses /\ failCount = s.failCount
  /\ lazyFired = s.lazyFired

\* new Modal(): the lightbox is closed and hidden, nothing is shown in it.
NoArtwork == ""

ModalConstructed ==
  /\ isOpen = FALSE /\ currentGallery = <<>> /\ currentIndex = 0
  /\ currentArtwork = NoArtwork /\ focusTrap = FALSE
  /\ previouslyFocusedElement = ""
  /\ ariaHidden = "true" /\ display = "none" /\ modalOpenClass = FALSE
  /\ bodyPosition = "" /\ activeElement = "page" /\ trapListeners = 0
  /\ modalImage = [src |-> "", alt |-> "", opacity |-> "1"]
  /\ preloads = EmptyBag /\ modalTimers = <<>> /\ modalCalls = 0
  /\ navButtons = "" /\ preloadFailed = FALSE

\* The elements of the page that have an id, from top to bottom, and those
\* of them a link of the navbar points to.
ElementIds == << "home", "gallery", "contact", "contact-form" >>

LinkIds == { "home", "gallery", "contact" }

Positions == 1..Len(ElementIds)

PositionOf(id) == CHOOSE p \in Positions : ElementIds[p] = id

\* The section of this.sections with the most visibility when the page is
\* scrolled to position p: the last one that starts at or above p.
MostVisible(p) ==
  LET above == { q \in Positions : q <= p /\ ElementIds[q] \in LinkIds }
  IN  ElementIds[CHOOSE q \in above : \A r \in above : r <= q]

\* Widths of the window, around the 768 of handleResize.
Widths == { 767, 768 }

\* The navigation state as one record, for the handlers to work on.
NavCur ==
  [ mobileToggle |-> mobileToggle, currentSection |-> currentSection,
    isScrolling |-> isScrolling, lastScrollY |-> lastScrollY,
    position |-> position,
    inThrottle |-> inThrottle, desktopActive |-> desktopActive,
    mobileActive |-> mobileActive, menuActive |-> menuActive,
    menuAriaHidden |-> menuAriaHidden,
    toggleAriaExpanded |-> toggleAriaExpanded, bodyOverflow |-> bodyOverflow,
    navFocus |-> navFocus, innerWidth |-> innerWidth,
    animations |-> animations, flagTimers |-> flagTimers,
    focusTimers |-> focusTimers, resizeTimer |-> resizeTimer ]

NavIs(n) ==
  /\ mobileToggle = n.mobileToggle /\ currentSection = n.currentSection
  /\ isScrolling = n.isScrolling /\ lastScrollY = n.lastScrollY
  /\ position = n.position
  /\ inThrottle = n.inThrottle /\ desktopActive = n.desktopActive
  /\ mobileActive = n.mobileActive /\ menuActive = n.menuActive
  /\ menuAriaHidden = n.menuAriaHidden
  /\ toggleAriaExpanded = n.toggleAriaExpanded
  /\ bodyOverflow = n.bodyOverflow /\ navFocus = n.navFocus
  /\ innerWidth = n.innerWidth
  /\ animations = n.animations /\ flagTimers = n.flagTimers
  /\ focusTimers = n.focusTimers /\ resizeTimer = n.resizeTimer

\* The header has class header--scrolled: updateHeaderStyle sets it from the
\* scrollY that handleScroll stores in lastScrollY.
headerScrolled == lastScrollY > 1

\* setActiveSection(sectionId)
setActiveSection(n, sectionId) ==
  [n EXCEPT !.desktopActive = IF sectionId \in LinkIds THEN {sectionId} ELSE {},
            !.mobileActive = IF sectionId \in LinkIds THEN {sectionId} ELSE @,
            !.currentSection = sectionId]

\* updateActiveSection()
updateActiveSection(n) ==
  IF n.isScrolling THEN n
  ELSE IF MostVisible(n.position) # n.currentSection
    THEN setActiveSection(n, MostVisible(n.position))
    ELSE n

\* handleScroll(): updateHeaderStyle, updateActiveSection, lastScrollY
handleScroll(n) == [updateActiveSection(n) EXCEPT !.lastScrollY = n.position]

\* new Navigation() on a page scrolled to position at, whose markup gives the
\* links of set active the active class, in a window of the given width.
NavConstructed(toggle, at, active, width) ==
  NavIs(handleScroll(updateActiveSection(
    [ mobileToggle |-> toggle, currentSection |-> "home",
      isScrolling |-> FALSE, lastScrollY |-> 1, position |-> at, inThrottle |-> FALSE, desktopActive |-> active,
      mobileActive |-> active, menuActive |-> FALSE,
      menuAriaHidden |-> "true", toggleAriaExpanded |-> "",
      bodyOverflow |-> "", navFocus |-> "", innerWidth |-> width,
      animations |-> << >>, flagTimers |-> 0, focusTimers |-> 0,
      resizeTimer |-> FALSE ])))

\* The navigation of a page at its top that nobody uses.
NavIdle == NavConstructed(TRUE, 1, {"home"}, 768)

\* An artwork: its id (artwork-00n), category and collection.
Item(id, category, collection) ==
  [id |-> id, category |-> category, collection |-> collection]

artworkData ==
  << Item(1, "illustration", "fantasy-series"),
     Item(2, "concept-art", "sci-fi-series"),
     Item(3, "character-design", "fantasy-series"),
     Item(4, "environment", "fantasy-series"),
     Item(5, "character-design", "steampunk-series"),
     Item(6, "illustration", "space-series") >>

\* data-filter of the filter buttons: all, the categories of artworkData, and
\* a category that no artwork has.
Filters ==
  { "all", "illustration", "concept-art", "character-design", "environment",
    "book-cover" }

\* The ids of collectionsData.
CollectionIds == { "fantasy-series", "sci-fi-series", "character-portfolio" }

\* Math.ceil(n / d)
Ceil(n, d) == (n + d - 1) \div d

\* array.slice(start, end)
Slice(s, start, end) ==
  IF start >= Min(end, Len(s)) THEN << >>
  ELSE SubSeq(s, start + 1, Min(end, Len(s)))

\* The gallery state as one record, for the handlers to work on.
GalCur ==
  [ artwork |-> allArtwork, filteredArtwork |-> filteredArtwork,
    currentFilter |-> currentFilter, currentPage |-> currentPage,
    maxPages |-> maxPages, galleryGrid |-> galleryGrid,
    loadMoreBtn |-> loadMoreBtn, activeFilter |-> activeFilter,
    announcements |-> announcements ]

GalIs(g) ==
  /\ allArtwork = g.artwork /\ filteredArtwork = g.filteredArtwork
  /\ currentFilter = g.currentFilter /\ currentPage = g.currentPage
  /\ maxPages = g.maxPages /\ galleryGrid = g.galleryGrid
  /\ loadMoreBtn = g.loadMoreBtn /\ activeFilter = g.activeFilter
  /\ announcements = g.announcements

\* Mutant of StartIndex: a full render starts at the current page too.
StartIndexOfPage(replace, page) == (page - 1) * itemsPerPage

\* const startIndex = replace ? 0 : (this.currentPage - 1) * this.itemsPerPage
StartIndex(replace, page) == IF replace THEN 0 ELSE (page - 1) * itemsPerPage

\* renderArtwork(replace)
renderArtwork(g, replace) ==
  LET artworkToShow == Slice(g.filteredArtwork,
                             StartIndex(replace, g.currentPage),
                             g.currentPage * itemsPerPage)
  IN  [g EXCEPT !.galleryGrid = (IF replace THEN << >> ELSE @) \o artworkToShow]

\* updateLoadMoreButton()
updateLoadMoreButton(g) ==
  IF g.currentPage >= g.maxPages
    THEN [g EXCEPT !.loadMoreBtn.display = "none"]
    ELSE [g EXCEPT !.loadMoreBtn =
            [display |-> "inline-flex",
             count |-> Min(Len(g.filteredArtwork) - g.currentPage * itemsPerPage,
                           itemsPerPage)]]

\* filterArtwork(category)
filterArtwork(g, category) ==
  LET filtered == IF category = "all" THEN g.artwork
                  ELSE SelectSeq(g.artwork, LAMBDA item : item.category = category)
  IN  updateLoadMoreButton(renderArtwork(
        [g EXCEPT !.filteredArtwork = filtered,
                  !.maxPages = Ceil(Len(filtered), itemsPerPage)], TRUE))

\* handleFilterChange(filter, button), button being the one of that filter
handleFilterChange(g, filter) ==
  [filterArtwork([g EXCEPT !.activeFilter = filter, !.currentFilter = filter,
                           !.currentPage = 1], filter)
     EXCEPT !.announcements = @ + 1]

\* loadMoreArtwork()
loadMoreArtwork(g) ==
  IF g.currentPage < g.maxPages
    THEN updateLoadMoreButton(renderArtwork(
           [g EXCEPT !.currentPage = @ + 1], FALSE))
    ELSE g

\* addArtwork(newArtwork), newArtwork being the sequence of the items pushed:
\* the array, or the one item
addArtwork(g, newArtwork) ==
  filterArtwork([g EXCEPT !.artwork = @ \o newArtwork], g.currentFilter)

\* new Gallery() on a page whose markup has the 'all' button active and the
\* load-more button shown: init calls filterArtwork('all').
GalleryConstructed ==
  /\ GalIs(filterArtwork(
       [ artwork |-> artworkData, filteredArtwork |-> << >>,
         currentFilter |-> "all", currentPage |-> 1, maxPages |-> 1,
         galleryGrid |-> << >>,
         loadMoreBtn |-> [display |-> "inline-flex", count |-> 0],
         activeFilter |-> "all", announcements |-> 0 ], "all"))
  /\ scrollAdjust = 0

\* The value of an input: the length of its text without the white space
\* around it, whether there is white space around it, and whether the text
\* matches the pattern of the field's validator, if that has one.
Text(len, pad, wellFormed) == [len |-> len, pad |-> pad, wellFormed |-> wellFormed]

EmptyText == Text(0, FALSE, FALSE)

\* value.trim()
Trim(v) == [v EXCEPT !.pad = FALSE]

\* The inputs of the form that have a name, in document order.
FieldNames == << "email", "message" >>

FieldSet == { FieldNames[k] : k \in 1..Len(FieldNames) }

\* this.validators; a length of 0 stands for no minLength or maxLength.
validators ==
  [ email   |-> [required |-> TRUE, pattern |-> TRUE, minLength |-> 0,
                 maxLength |-> 0,
                 message |-> "Please enter a valid email address"],
    message |-> [required |-> TRUE, pattern |-> FALSE, minLength |-> 10,
                 maxLength |-> 2000,
                 message |-> "Please enter a message between 10 and 2000 characters"] ]

\* new ContactForm(): setupFields on an empty form, nothing shown.
FormConstructed ==
  /\ fields = [f \in FieldSet |->
                 [element |-> EmptyText, isValid |-> FALSE, value |-> EmptyText,
                  touched |-> FALSE, groupError |-> FALSE, ariaInvalid |-> "",
                  errorText |-> "", errorDisplay |-> "none"]]
  /\ isSubmitting = FALSE /\ submitDisabled = FALSE /\ submission = 0
  /\ status = [type |-> "", text |-> "", display |-> "none"]
  /\ statusTimers = 0 /\ debounced = {} /\ formFocus = ""
  /\ submits = 0
  /\ lastResult = [f \in FieldSet |->
                     [result |-> "none", value |-> EmptyText,
                      errorMessage |-> "", reset |-> FALSE]]

Init ==
  /\ markup \in Pages
  /\ \E d \in SUBSET DOMAIN markup : Is(Constructed(markup, d))
  /\ ModalConstructed
  /\ FormConstructed
  /\ NavIdle
  /\ GalleryConstructed

\* ----------------------------------------------------------------- actions
\* The page calls the public methods at most MaxCalls times; this bounds the
\* probes in flight and the timers pending as well.
WithinBounds(s) == s.calls <= MaxCalls

\* The task ends: the MutationObserver microtask runs, and the variables take
\* the resulting state.
Commit(s) ==
  LET t == DrainMutations(s)
  IN  /\ WithinBounds(t)
      /\ inDoc' = t.inDoc /\ src' = t.src /\ dataset' = t.dataset
      /\ observedFlag' = t.observedFlag /\ wrapped' = t.wrapped
      /\ imgClass' = t.imgClass /\ contClass' = t.contClass /\ alt' = t.alt
      /\ live' = t.live /\ ioObserved' = t.ioObserved
      /\ loadingImages' = t.loadingImages /\ loadedImages' = t.loadedImages
      /\ failedImages' = t.failedImages /\ retryAttempts' = t.retryAttempts
      /\ listeners' = t.listeners /\ probes' = t.probes /\ timers' = t.timers
      /\ calls' = t.calls
      /\ retryPasses' = t.retryPasses /\ failCount' = t.failCount
      /\ lazyFired' = t.lazyFired
      /\ markup' = markup
      /\ UNCHANGED outsideLoader

\* The IntersectionObserver callback of setupLazyLoading, for one entry.
lazyCallback(s, i) ==
  LET s1 == ensureImageContainer(s, i)
      s2 == [s1 EXCEPT !.contClass[i] = @ \cup {"image-loading"}]
      s3 == loadImageProgressive(s2, i)
  IN  [s3 EXCEPT !.ioObserved[i] = FALSE,
                 !.lazyFired[i] = Min(@ + 1, 2)]

\* The observer reports an observed target as intersecting the viewport
\* extended by the root margin.  An entry that is not intersecting changes
\* nothing, and a target stays observed, hence reportable, until the callback
\* has unobserved it.
LazyNotify(i) ==
  /\ ioObserved[i]
  /\ Commit(lazyCallback(Cur, i))

RemoveProbe(s, p) == [s EXCEPT !.probes = @ (-) SetToBag({p})]

\* Mutant of Committed: the first candidate of the list is committed, whichever
\* candidate has decoded.
CommittedFirst(p) == p.formats[1]

\* The candidate a decoded probe commits.
Committed(p) == p.formats[p.index]

\* img.src = currentFormat: the element fetches a source a probe has just
\* decoded, which the browser serves from its cache; the fetch it replaces is
\* dropped.
commitSrc(s, i, url) == [s EXCEPT !.src[i] = url, !.live[i] = "idle"]

\* testImg.onload of tryLoadFormats
formatOnLoad(s, p) ==
  LET s1 == commitSrc(s, p.img, Committed(p))
      s2 == markImageLoaded(s1, p.img)
  IN  [s2 EXCEPT !.loadingImages = @ \ {p.img},
                 !.loadedImages = @ \cup {p.img}]

\* testImg.onload / fallbackImg.onload of loadImageWithFallback
fallbackOnLoad(s, p) ==
  markImageLoaded(commitSrc(s, p.img, Committed(p)), p.img)

\* Mutant of formatOnError: the candidate that failed is written to the live
\* element before the next one is tried.
formatOnErrorFlash(s, p) ==
  tryLoadFormats([s EXCEPT !.src[p.img] = p.formats[p.index],
                           !.live[p.img] = "pending"],
                 p.img, p.formats, NextIndex(p.index))

\* testImg.onerror of tryLoadFormats
formatOnError(s, p) == tryLoadFormats(s, p.img, p.formats, NextIndex(p.index))

\* Mutant of fallbackOnError: the failure of the primary source is handled as
\* an error without the fallback being tried.
fallbackOnErrorGivesUp(s, p) == handleImageError(s, p.img)

\* testImg.onerror / fallbackImg.onerror of loadImageWithFallback
fallbackOnError(s, p) ==
  IF p.index < Len(p.formats)
    THEN [s EXCEPT !.probes = @ (+) SetToBag({[p EXCEPT !.index = @ + 1]})]
    ELSE handleImageError(s, p.img)

\* A probe decodes its candidate.
ProbeLoad(p) ==
  /\ BagIn(p, probes)
  /\ Commit(IF p.kind = "format" THEN formatOnLoad(RemoveProbe(Cur, p), p)
            ELSE fallbackOnLoad(RemoveProbe(Cur, p), p))

\* A probe fails to decode its candidate.
ProbeError(p) ==
  /\ BagIn(p, probes)
  /\ Commit(IF p.kind = "format" THEN formatOnError(RemoveProbe(Cur, p), p)
            ELSE fallbackOnError(RemoveProbe(Cur, p), p))

\* The callback of the retry timer of handleImageError.
retryCallback(s, i, delay) ==
  LET s1 == loadImageProgressive(s, i)
  IN  IF PassGuard(s, i) THEN s1
      ELSE [s1 EXCEPT !.retryPasses[i] = Min(@ + 1, maxRetries + 1)]

\* A timer fires: a retry, or the fade-in of markImageLoaded.
TimerFire(t) ==
  /\ BagIn(t, timers)
  /\ LET s == [Cur EXCEPT !.timers = @ (-) SetToBag({t})]
     IN  Commit(IF t.kind = "retry" THEN retryCallback(s, t.img, t.delay)
                ELSE [s EXCEPT !.imgClass[t.img] = @ \cup {"fade-in"}])

RECURSIVE Dispatch(_, _, _)
Dispatch(s, i, n) ==
  IF n = 0 THEN s ELSE Dispatch(handleImageError(s, i), i, n - 1)

\* The element's own fetch of src fails: an error event, which every listener
\* of setupErrorHandling handles when the img is in the document.
LiveError(i) ==
  /\ live[i] = "pending"
  /\ LET s == [Cur EXCEPT !.live[i] = "idle"]
     IN  Commit(IF inDoc[i] THEN Dispatch(s, i, listeners) ELSE s)

\* The element's own fetch of src succeeds.
LiveLoad(i) ==
  /\ live[i] = "pending"
  /\ Commit([Cur EXCEPT !.live[i] = "idle"])

\* refreshImages()
refreshImages(s) ==
  LET s1 == [s EXCEPT !.loadingImages = {}, !.failedImages = {},
                      !.retryAttempts = EmptyMap,
                      !.failCount = [i \in Imgs |-> 0]]
  IN  setupErrorHandling(replaceExternalImages(s1))


RefreshImages ==
  /\ Commit(refreshImages([Cur EXCEPT !.calls = @ + 1]))

\* loadImage(img), the public entry kept for older callers
LoadImage(i) ==
  /\ inDoc[i]
  /\ Commit(loadImageProgressive([Cur EXCEPT !.calls = @ + 1], i))

\* loadImageWithFallback(img, primarySrc, fallbackSrc)
loadImageWithFallback(s, i, primarySrc, fallbackSrc) ==
  LET s1 == ensureImageContainer(s, i)
      s2 == [s1 EXCEPT !.contClass[i] = @ \cup {"loading"}]
  IN  [s2 EXCEPT !.probes = @ (+) SetToBag({[kind |-> "fallback", img |-> i,
                    formats |-> SelectSeq(<<primarySrc, fallbackSrc>>,
                                          LAMBDA u : u # NoUrl),
                    index |-> 1]})]

LoadImageWithFallback(i, fallbackSrc) ==
  /\ inDoc[i]
  /\ Commit(loadImageWithFallback([Cur EXCEPT !.calls = @ + 1], i,
                                   "alt.jpg", fallbackSrc))

\* A card holding the img is inserted into the document.
InsertImage(i) ==
  /\ ~inDoc[i]
  /\ Commit([Cur EXCEPT !.inDoc[i] = TRUE, !.mut = <<i>>])

Next ==
  \/ \E i \in Imgs : LazyNotify(i)
  \/ \E p \in BagToSet(probes) : ProbeLoad(p)
  \/ \E p \in BagToSet(probes) : ProbeError(p)
  \/ \E t \in BagToSet(timers) : TimerFire(t)
  \/ \E i \in Imgs : LiveError(i)
  \/ \E i \in Imgs : LiveLoad(i)
  \/ RefreshImages
  \/ \E i \in Imgs : LoadImage(i)
  \/ \E i \in Imgs, f \in {NoUrl, "alt.svg"} : LoadImageWithFallback(i, f)
  \/ \E i \in Imgs : InsertImage(i)

Spec == Init /\ [][Next]_vars

\* Two imgs with the same reference, on a page that leaves the loader to
\* itself: it calls none of its public methods.
InitShared ==
  /\ markup \in SharedPages
  /\ \E d \in SUBSET DOMAIN markup : Is(Constructed(markup, d))
  /\ ModalConstructed
  /\ FormConstructed
  /\ NavIdle
  /\ GalleryConstructed

NextShared ==
  \/ \E i \in Imgs : LazyNotify(i)
  \/ \E p \in BagToSet(probes) : ProbeLoad(p)
  \/ \E p \in BagToSet(probes) : ProbeError(p)
  \/ \E t \in BagToSet(timers) : TimerFire(t)
  \/ \E i \in Imgs : LiveError(i)
  \/ \E i \in Imgs : LiveLoad(i)
  \/ \E i \in Imgs : InsertImage(i)

SpecShared == InitShared /\ [][NextShared]_vars

\* The pages of ContextPages with all their imgs in the document from the
\* start, left to themselves.
InitContext ==
  /\ markup \in ContextPages
  /\ Is(Constructed(markup, DOMAIN markup))
  /\ ModalConstructed
  /\ FormConstructed
  /\ NavIdle
  /\ GalleryConstructed

NextContext ==
  \/ \E i \in Imgs : LazyNotify(i)
  \/ \E p \in BagToSet(probes) : ProbeLoad(p)
  \/ \E p \in BagToSet(probes) : ProbeError(p)
  \/ \E t \in BagToSet(timers) : TimerFire(t)
  \/ \E i \in Imgs : LiveError(i)
  \/ \E i \in Imgs : LiveLoad(i)

SpecContext == InitContext /\ [][NextContext]_vars

\* The browser delivers every probe's load or error event, every timer and
\* every event of an element's own fetch.
Fairness ==
  /\ WF_vars(\E p \in BagToSet(probes) : ProbeLoad(p) \/ ProbeError(p))
  /\ WF_vars(\E t \in BagToSet(timers) : TimerFire(t))
  /\ WF_vars(\E i \in Imgs : LiveError(i) \/ LiveLoad(i))

FairSpec == Spec /\ Fairness

\* ------------------------------------------------------------ the lightbox
\* The galleries the cards open the lightbox with: gallery.filteredArtwork.
Galleries == { <<"a">>, <<"a", "b">>, <<"a", "b", "c">> }

\* lockBodyScroll() / unlockBodyScroll()
lockBodyScroll == bodyPosition' = "fixed"

unlockBodyScroll == bodyPosition' = ""

\* updateContent(): the text fields take those of the artwork; the image is
\* dimmed and a preload of the full-size image is started.
updateContent(artwork) ==
  /\ modalImage' = [modalImage EXCEPT !.opacity = "0.5"]
  /\ preloads' = preloads (+) SetToBag({artwork})

\* updateNavigationButtons(): both buttons are shown when the gallery has more
\* than one image.
updateNavigationButtons(gallery) ==
  navButtons' = IF Len(gallery) > 1 THEN "flex" ELSE "none"

\* open(artwork, index, gallery); a call that returns at the guard changes
\* nothing.  The announcement for screen readers touches nothing else of the
\* page and is left out.
Open(gallery, index) ==
  LET artwork == gallery[index + 1]
  IN  /\ ~(artwork = NoArtwork \/ isOpen)
      /\ modalCalls < MaxModalCalls
      /\ modalCalls' = modalCalls + 1
      /\ currentArtwork' = artwork
      /\ currentIndex' = index
      /\ currentGallery' = gallery
      /\ isOpen' = TRUE
      /\ previouslyFocusedElement' = activeElement
      /\ updateContent(artwork)
      /\ ariaHidden' = "false"
      /\ display' = "flex"
      /\ lockBodyScroll
      /\ modalTimers' = modalTimers \o << [kind |-> "trap", delay |-> 100],
                                         [kind |-> "frame", delay |-> 0] >>
      /\ updateNavigationButtons(gallery)
      /\ UNCHANGED << focusTrap, modalOpenClass, activeElement, trapListeners,
                      preloadFailed >>
      /\ UNCHANGED outsideModal

\* close()
Close ==
  /\ isOpen
  /\ modalCalls < MaxModalCalls
  /\ modalCalls' = modalCalls + 1
  /\ isOpen' = FALSE
  /\ focusTrap' = FALSE
  /\ trapListeners' = IF focusTrap THEN trapListeners - 1 ELSE trapListeners
  /\ modalOpenClass' = FALSE
  /\ modalTimers' = Append(modalTimers, [kind |-> "hide", delay |-> 300])
  /\ UNCHANGED << currentGallery, currentIndex, currentArtwork,
                  previouslyFocusedElement, ariaHidden, display, bodyPosition,
                  activeElement, modalImage, preloads, navButtons,
                  preloadFailed >>
  /\ UNCHANGED outsideModal

\* The 100 ms timer of open: trapFocus(this.modal) installs a keydown listener
\* and focuses the first focusable element of the modal.
TrapTimer ==
  /\ focusTrap' = TRUE
  /\ trapListeners' = trapListeners + 1
  /\ activeElement' = "modal"
  /\ UNCHANGED << previouslyFocusedElement, ariaHidden, display,
                  modalOpenClass, bodyPosition >>

\* The animation frame of open.
FrameCallback ==
  /\ modalOpenClass' = TRUE
  /\ UNCHANGED << focusTrap, trapListeners, activeElement,
                  previouslyFocusedElement, ariaHidden, display, bodyPosition >>

\* The 300 ms timer of close.
HideTimer ==
  /\ ariaHidden' = "true"
  /\ display' = "none"
  /\ unlockBodyScroll
  /\ activeElement' = IF previouslyFocusedElement # ""
                        THEN previouslyFocusedElement ELSE activeElement
  /\ previouslyFocusedElement' = ""
  /\ UNCHANGED << focusTrap, trapListeners, modalOpenClass >>

\* The k-th pending timer may be the next to fire: none set before it is due
\* before it (a timer set earlier with a delay no longer than its own).
MayFire(k) == \A j \in 1..(k - 1) : modalTimers[j].delay > modalTimers[k].delay

\* A timer or an animation frame of the modal fires.
ModalTimerFire(k) ==
  /\ k \in DOMAIN modalTimers /\ MayFire(k)
  /\ modalTimers' = SubSeq(modalTimers, 1, k - 1)
                      \o SubSeq(modalTimers, k + 1, Len(modalTimers))
  /\ CASE modalTimers[k].kind = "trap"  -> TrapTimer
       [] modalTimers[k].kind = "frame" -> FrameCallback
       [] modalTimers[k].kind = "hide"  -> HideTimer
  /\ UNCHANGED << isOpen, currentGallery, currentIndex, currentArtwork,
                  modalImage, preloads, modalCalls, navButtons,
                  preloadFailed >>
  /\ UNCHANGED outsideModal

\* newImg.onload of updateContent
PreloadLoad(artwork) ==
  /\ BagIn(artwork, preloads)
  /\ preloads' = preloads (-) SetToBag({artwork})
  /\ modalImage' = [src |-> artwork, alt |-> artwork, opacity |-> "1"]
  /\ UNCHANGED << isOpen, currentGallery, currentIndex, currentArtwork,
                  focusTrap, previouslyFocusedElement, ariaHidden, display,
                  modalOpenClass, bodyPosition, activeElement, trapListeners,
                  modalTimers, modalCalls, navButtons, preloadFailed >>
  /\ UNCHANGED outsideModal

\* newImg.onerror of updateContent
PreloadError(artwork) ==
  /\ BagIn(artwork, preloads)
  /\ preloads' = preloads (-) SetToBag({artwork})
  /\ modalImage' = [modalImage EXCEPT !.alt = "Image failed to load",
                                      !.opacity = "1"]
  /\ preloadFailed' = TRUE
  /\ UNCHANGED << isOpen, currentGallery, currentIndex, currentArtwork,
                  focusTrap, previouslyFocusedElement, ariaHidden, display,
                  modalOpenClass, bodyPosition, activeElement, trapListeners,
                  modalTimers, modalCalls, navButtons >>
  /\ UNCHANGED outsideModal

\* What next, previous and goToIndex leave alone.
NavigationFrame ==
  /\ UNCHANGED << isOpen, currentGallery, focusTrap, previouslyFocusedElement,
                  ariaHidden, display, modalOpenClass, bodyPosition,
                  activeElement, trapListeners, modalTimers, modalCalls,
                  preloadFailed >>
  /\ UNCHANGED outsideModal

\* Mutant of StepForward: the last index is not wrapped to the first.
StepForwardStuck(index, n) == IF index = n - 1 THEN index ELSE index + 1

\* (this.currentIndex + 1) % this.currentGallery.length
StepForward(index, n) == (index + 1) % n

\* this.currentIndex === 0 ? this.currentGallery.length - 1 : this.currentIndex - 1
StepBack(index, n) == IF index = 0 THEN n - 1 ELSE index - 1

\* The lightbox shows the artwork at index of its gallery.
ShowIndex(index) ==
  /\ currentIndex' = index
  /\ currentArtwork' = currentGallery[index + 1]
  /\ updateContent(currentGallery[index + 1])
  /\ updateNavigationButtons(currentGallery)
  /\ NavigationFrame

\* next(): the button, the right arrow key, a swipe to the left
ModalNext ==
  /\ BagCardinality(preloads) < MaxPreloads
  /\ IF Len(currentGallery) <= 1 THEN UNCHANGED vars
     ELSE ShowIndex(StepForward(currentIndex, Len(currentGallery)))

\* previous(): the button, the left arrow key, a swipe to the right
ModalPrevious ==
  /\ BagCardinality(preloads) < MaxPreloads
  /\ IF Len(currentGallery) <= 1 THEN UNCHANGED vars
     ELSE ShowIndex(StepBack(currentIndex, Len(currentGallery)))

\* goToIndex(index)
GoToIndex(index) ==
  /\ BagCardinality(preloads) < MaxPreloads
  /\ IF index >= 0 /\ index < Len(currentGallery) THEN ShowIndex(index)
     ELSE UNCHANGED vars

\* The lightbox on a page without imgs of its own.
InitModal ==
  /\ markup = <<>>
  /\ Is(Constructed(markup, {}))
  /\ ModalConstructed
  /\ FormConstructed
  /\ NavIdle
  /\ GalleryConstructed

NextModal ==
  \/ \E g \in Galleries : \E k \in 0..(Len(g) - 1) : Open(g, k)
  \/ Close
  \/ \E k \in DOMAIN modalTimers : ModalTimerFire(k)
  \/ \E a \in BagToSet(preloads) : PreloadLoad(a)
  \/ \E a \in BagToSet(preloads) : PreloadError(a)
  \/ ModalNext
  \/ ModalPrevious
  \/ \E k \in -1..3 : GoToIndex(k)

SpecModal == InitModal /\ [][NextModal]_vars

\* -------------------------------------------------------- the contact form
\* What the user may type into each field.
InputValues(f) ==
  IF f = "email"
    THEN { EmptyText, Text(3, FALSE, FALSE), Text(5, TRUE, TRUE) }
    ELSE { EmptyText, Text(0, TRUE, FALSE), Text(9, TRUE, FALSE),
           Text(10, FALSE, FALSE), Text(2000, TRUE, FALSE),
           Text(2001, FALSE, FALSE) }

\* Mutant of LongEnough: a text of exactly minLength characters is too short.
LongEnoughStrict(len, minLength) == ~(minLength # 0 /\ len <= minLength)

\* !(validator.minLength && value.length < validator.minLength)
LongEnough(len, minLength) == ~(minLength # 0 /\ len < minLength)

\* !(validator.maxLength && value.length > validator.maxLength)
ShortEnough(len, maxLength) == ~(maxLength # 0 /\ len > maxLength)

\* The checks of validateField on the trimmed value: the result and the
\* error message.
Validation(f, value) ==
  LET v == validators[f]
  IN  IF v.required /\ value.len = 0
        THEN [isValid |-> FALSE, errorMessage |-> "This field is required"]
      ELSE IF value.len # 0 /\ v.pattern /\ ~value.wellFormed
        THEN [isValid |-> FALSE, errorMessage |-> v.message]
      ELSE IF value.len # 0 /\ ~LongEnough(value.len, v.minLength)
        THEN [isValid |-> FALSE,
              errorMessage |-> "Minimum " \o ToString(v.minLength)
                                 \o " characters required"]
      ELSE IF value.len # 0 /\ ~ShortEnough(value.len, v.maxLength)
        THEN [isValid |-> FALSE,
              errorMessage |-> "Maximum " \o ToString(v.maxLength)
                                 \o " characters allowed"]
      ELSE [isValid |-> TRUE, errorMessage |-> ""]

\* updateFieldUI(fieldName, isValid, errorMessage), on the field's record
updateFieldUI(fr, isValid, errorMessage) ==
  IF isValid
    THEN [fr EXCEPT !.groupError = FALSE, !.ariaInvalid = "false",
                    !.errorText = "", !.errorDisplay = "none"]
    ELSE [fr EXCEPT !.groupError = TRUE, !.ariaInvalid = "true",
                    !.errorText = errorMessage, !.errorDisplay = "block"]

\* validateField(fieldName): the field's record after the call
validateField(fs, f) ==
  LET value == Trim(fs[f].element)
      r     == Validation(f, value)
  IN  [fs EXCEPT ![f] = updateFieldUI([@ EXCEPT !.isValid = r.isValid,
                                                !.value = value],
                                      r.isValid, r.errorMessage)]

\* The result validateField(fieldName) returns.
ValidateResult(fs, f) == Validation(f, Trim(fs[f].element)).isValid

\* clearFieldError(fieldName)
clearFieldError(fs, f) ==
  IF fs[f].groupError /\ fs[f].isValid
    THEN [fs EXCEPT ![f].groupError = FALSE, ![f].errorDisplay = "none"]
    ELSE fs

\* validateForm(): every field is validated, in the order of this.fields.
RECURSIVE ValidateFrom(_, _)
ValidateFrom(fs, k) ==
  IF k > Len(FieldNames) THEN fs
  ELSE ValidateFrom(validateField(fs, FieldNames[k]), k + 1)

validateForm(fs) == ValidateFrom(fs, 1)

\* Mutant of FormIsValid: one valid field is enough.
FormIsValidAny(fs) == \E f \in FieldSet : ValidateResult(fs, f)

\* The result of validateForm()
FormIsValid(fs) == \A f \in FieldSet : ValidateResult(fs, f)

\* The field focusFirstError focuses: the first that is invalid and required.
FirstError(fs) ==
  LET bad == {k \in 1..Len(FieldNames) :
                ~fs[FieldNames[k]].isValid /\ validators[FieldNames[k]].required}
  IN  IF bad = {} THEN ""
      ELSE FieldNames[CHOOSE k \in bad : \A j \in bad : k <= j]

\* element.focus(): the input that loses the focus gets a blur event, which
\* validates it; the one that gains it a focus event, which clears its error.
MoveFocus(fs, from, to) ==
  LET s1 == IF from # "" /\ from # to
              THEN validateField([fs EXCEPT ![from].touched = TRUE], from)
              ELSE fs
  IN  IF to # "" /\ to # from THEN clearFieldError(s1, to) ELSE s1

\* The history of a step whose validateField calls are those of the fields
\* of S and leave the fields as fs.
Validated(fs, S) ==
  lastResult' = [f \in FieldSet |->
                   IF f \in S
                     THEN [result |-> IF ValidateResult(fs, f) THEN "true"
                                                               ELSE "false",
                           value |-> Trim(fs[f].element),
                           errorMessage |->
                             Validation(f, Trim(fs[f].element)).errorMessage,
                           reset |-> FALSE]
                     ELSE lastResult[f]]

\* showStatus(type, message)
showStatus(type, message) ==
  /\ status' = [type |-> type, text |-> message, display |-> "block"]
  /\ statusTimers' = IF type = "success" THEN statusTimers + 1 ELSE statusTimers

\* resetForm(), on this.fields
resetForm(fs) ==
  [f \in FieldSet |->
     [fs[f] EXCEPT !.element = EmptyText, !.isValid = FALSE,
                   !.value = EmptyText, !.touched = FALSE,
                   !.groupError = FALSE, !.errorDisplay = "none",
                   !.ariaInvalid = "false"]]

\* The history of a step that calls resetForm.
WasReset ==
  lastResult' = [f \in FieldSet |->
                   [lastResult[f] EXCEPT !.reset = (lastResult[f].result # "none")]]

formInputs == << fields, debounced, formFocus, lastResult >>

formSubmission == << isSubmitting, submitDisabled, submission, status,
                     statusTimers, submits >>

\* The input event of field f: the user, the focus on f, makes its text v.
InputEvent(f, v) ==
  /\ formFocus = f
  /\ v # fields[f].element
  /\ fields' = [fields EXCEPT ![f].element = v, ![f].value = v,
                              ![f].touched = TRUE]
  /\ debounced' = debounced \cup {f}
  /\ UNCHANGED << formFocus, lastResult, formSubmission, outsideForm >>

\* debouncedValidation of field f runs, 300 ms after its last input event.
DebouncedValidation(f) ==
  /\ f \in debounced
  /\ debounced' = debounced \ {f}
  /\ IF fields[f].touched
       THEN fields' = validateField(fields, f) /\ Validated(fields, {f})
       ELSE UNCHANGED << fields, lastResult >>
  /\ UNCHANGED << formFocus, formSubmission, outsideForm >>

\* The focus moves to field f, or out of the fields of the form (f = "").
FocusMoves(f) ==
  /\ f # formFocus
  /\ fields' = MoveFocus(fields, formFocus, f)
  /\ formFocus' = f
  /\ Validated(fields, IF formFocus = "" THEN {} ELSE {formFocus})
  /\ UNCHANGED << debounced, formSubmission, outsideForm >>

\* Mutant of AlreadySubmitting: handleSubmit without its first line.
AlreadySubmittingIgnored == FALSE

\* if (this.isSubmitting) return;
AlreadySubmitting == isSubmitting

\* handleSubmit(), up to the await of submitForm
handleSubmit ==
  IF AlreadySubmitting THEN UNCHANGED vars
  ELSE
    LET fs == validateForm(fields)
        to == FirstError(fs)
    IN  /\ Validated(fields, FieldSet)
        /\ IF ~FormIsValid(fields)
             THEN /\ showStatus("error",
                       "Please correct the errors above and try again.")
                  /\ IF to # "" /\ to # formFocus
                       THEN /\ fields' = MoveFocus(fs, formFocus, to)
                            /\ formFocus' = to
                       ELSE /\ fields' = fs
                            /\ UNCHANGED formFocus
                  /\ UNCHANGED << isSubmitting, submitDisabled, submission,
                                  submits >>
             ELSE /\ submits < MaxSubmits
                  /\ isSubmitting' = TRUE
                  /\ submitDisabled' = TRUE
                  /\ showStatus("loading", "Sending your message...")
                  /\ submission' = submission + 1
                  /\ submits' = submits + 1
                  /\ fields' = fs
                  /\ UNCHANGED formFocus
        /\ UNCHANGED << debounced, outsideForm >>

\* How a submitForm call may end; as shipped it resolves with success.
Outcomes == { "success", "failure", "throw" }

\* Mutant of Finally: the two statements at the end of the try block.
FinallyAfterSuccess(outcome) ==
  IF outcome = "success"
    THEN isSubmitting' = FALSE /\ submitDisabled' = FALSE
    ELSE UNCHANGED << isSubmitting, submitDisabled >>

\* The finally block of handleSubmit
Finally(outcome) == isSubmitting' = FALSE /\ submitDisabled' = FALSE

\* handleSubmit() from the await on: the promise of submitForm settles.
SubmitSettles(outcome) ==
  /\ submission > 0
  /\ submission' = submission - 1
  /\ IF outcome = "success"
       THEN /\ showStatus("success", "Thank you! Your message has been sent successfully. I'll get back to you within 24-48 hours.")
            /\ fields' = resetForm(fields)
            /\ WasReset
       ELSE /\ showStatus("error", "Sorry, there was an error sending your message. Please try again or contact me directly via email.")
            /\ UNCHANGED << fields, lastResult >>
  /\ Finally(outcome)
  /\ UNCHANGED << debounced, formFocus, submits, outsideForm >>

\* A 10 s timer of showStatus fires.
StatusTimer ==
  /\ statusTimers > 0
  /\ statusTimers' = statusTimers - 1
  /\ status' = [status EXCEPT !.display = "none"]
  /\ UNCHANGED << formInputs, isSubmitting, submitDisabled, submission,
                  submits, outsideForm >>

\* setFieldValue(fieldName, value)
setFieldValue(f, v) ==
  LET fs == [fields EXCEPT ![f].element = v, ![f].value = v,
                           ![f].touched = TRUE]
  IN  /\ v # fields[f].element
      /\ fields' = validateField(fs, f)
      /\ Validated(fs, {f})
      /\ UNCHANGED << debounced, formFocus, formSubmission, outsideForm >>

\* isFormValid()
isFormValid ==
  /\ fields' = validateForm(fields)
  /\ Validated(fields, FieldSet)
  /\ UNCHANGED << debounced, formFocus, formSubmission, outsideForm >>

InitForm ==
  /\ markup = <<>>
  /\ Is(Constructed(markup, {}))
  /\ ModalConstructed
  /\ FormConstructed
  /\ NavIdle
  /\ GalleryConstructed

UserActs ==
  \/ \E f \in FieldSet : \E v \in InputValues(f) : InputEvent(f, v)
  \/ \E f \in FieldSet : DebouncedValidation(f)
  \/ \E f \in FieldSet \cup {""} : FocusMoves(f)
  \/ handleSubmit
  \/ StatusTimer
  \/ \E f \in FieldSet : \E v \in InputValues(f) : setFieldValue(f, v)
  \/ isFormValid

NextForm == UserActs \/ SubmitSettles("success")

SpecForm == InitForm /\ [][NextForm]_vars

\* The form with a submitForm that may fail, and its promise settling.
NextFormOutcomes == UserActs \/ \E o \in Outcomes : SubmitSettles(o)

FairSpecForm ==
  /\ InitForm
  /\ [][NextFormOutcomes]_vars
  /\ WF_vars(\E o \in Outcomes : SubmitSettles(o))

\* ---------------------------------------------------------- the navigation
\* The state of the navigation after a handler.
NavAssign(n) ==
  /\ mobileToggle' = n.mobileToggle /\ currentSection' = n.currentSection
  /\ isScrolling' = n.isScrolling /\ lastScrollY' = n.lastScrollY
  /\ position' = n.position
  /\ inThrottle' = n.inThrottle /\ desktopActive' = n.desktopActive
  /\ mobileActive' = n.mobileActive /\ menuActive' = n.menuActive
  /\ menuAriaHidden' = n.menuAriaHidden
  /\ toggleAriaExpanded' = n.toggleAriaExpanded
  /\ bodyOverflow' = n.bodyOverflow /\ navFocus' = n.navFocus
  /\ innerWidth' = n.innerWidth
  /\ animations' = n.animations /\ flagTimers' = n.flagTimers
  /\ focusTimers' = n.focusTimers /\ resizeTimer' = n.resizeTimer

\* The state after a handler, and the rest of the page as it was.
NavCommit(n) == NavAssign(n) /\ UNCHANGED outsideNav

\* throttledScroll: the listener of the scroll event
throttledScroll(n) ==
  IF n.inThrottle THEN n ELSE [handleScroll(n) EXCEPT !.inThrottle = TRUE]

\* window.scrollTo(0, y), or the user scrolling: the page moves to position p
\* and the scroll event is dispatched.
ScrollTo(n, p) == throttledScroll([n EXCEPT !.position = p])

\* isMobileMenuOpen()
isMobileMenuOpen(n) == n.menuActive

\* Mutant of openMobileMenu: the body is left free to scroll.
openMobileMenuUnlocked(n) ==
  IF ~n.mobileToggle THEN n
  ELSE [n EXCEPT !.menuActive = TRUE, !.menuAriaHidden = "false",
                 !.toggleAriaExpanded = "true",
                 !.focusTimers = @ + 1]

\* openMobileMenu()
openMobileMenu(n) ==
  IF ~n.mobileToggle THEN n
  ELSE [n EXCEPT !.menuActive = TRUE, !.menuAriaHidden = "false",
                 !.toggleAriaExpanded = "true",
                 !.focusTimers = @ + 1,
                 !.bodyOverflow = "hidden"]

\* closeMobileMenu()
closeMobileMenu(n) ==
  IF ~n.mobileToggle THEN n
  ELSE [n EXCEPT !.menuActive = FALSE, !.menuAriaHidden = "true",
                 !.toggleAriaExpanded = "false", !.navFocus = "toggle",
                 !.bodyOverflow = ""]

\* toggleMobileMenu()
toggleMobileMenu(n) ==
  IF isMobileMenuOpen(n) THEN closeMobileMenu(n) ELSE openMobileMenu(n)

\* scrollToSection(section, sectionId): the flag, the active section, the
\* 800 ms animation of smoothScrollTo and the 900 ms timer that clears the
\* flag. The timers of the animations that have ended are due within 100 ms:
\* they fire before the new animation ends (after).
scrollToSection(n, sectionId) ==
  [setActiveSection([n EXCEPT !.isScrolling = TRUE], sectionId)
     EXCEPT !.animations = Append(@, [to |-> PositionOf(sectionId),
                                      after |-> n.flagTimers])]

\* handleResize()
handleResize(n) ==
  IF n.innerWidth >= 768 /\ isMobileMenuOpen(n) THEN closeMobileMenu(n) ELSE n

\* A click on a link of the navbar or of the mobile menu.
LinkClick(id) ==
  /\ Len(animations) + flagTimers < MaxScrolls
  /\ NavCommit(closeMobileMenu(scrollToSection(NavCur, id)))

\* goToSection(sectionId), for the id of an element of the page
goToSection(id) ==
  /\ Len(animations) + flagTimers < MaxScrolls
  /\ NavCommit(scrollToSection(NavCur, id))

\* A click on the toggle.
ToggleClick ==
  /\ mobileToggle
  /\ menuActive \/ focusTimers < MaxFocusTimers
  /\ NavCommit(toggleMobileMenu(NavCur))

\* A click on the mobile menu itself, outside its links.
BackdropClick == NavCommit(closeMobileMenu(NavCur))

\* A keydown of the Escape key.
EscapeKey ==
  NavCommit(IF isMobileMenuOpen(NavCur) THEN closeMobileMenu(NavCur) ELSE NavCur)

\* A resize of the window to width w: debouncedResize restarts its timer.
ResizeEvent(w) ==
  /\ w # innerWidth
  /\ NavCommit([NavCur EXCEPT !.innerWidth = w, !.resizeTimer = TRUE])

\* The user scrolls the page to position p, which a body with overflow
\* hidden does not allow.
UserScroll(p) ==
  /\ bodyOverflow # "hidden"
  /\ NavCommit(ScrollTo(NavCur, p))

\* A frame of animation k before its last: the page stays where it is or
\* moves one position on towards the target.
AnimationFrame(k) ==
  /\ k \in DOMAIN animations
  /\ LET to   == animations[k].to
         next == IF position < to THEN position + 1
                 ELSE IF position > to THEN position - 1 ELSE position
     IN  \E p \in {position, next} : NavCommit(ScrollTo(NavCur, p))

\* The last frame of the oldest animation, 800 ms after its start: the page
\* is at the target, and the timer of the animation has 100 ms left.
AnimationEnd ==
  /\ animations # << >>
  /\ Head(animations).after = 0
  /\ NavCommit(ScrollTo([NavCur EXCEPT !.animations = Tail(@),
                                       !.flagTimers = @ + 1],
                        Head(animations).to))

\* The oldest 900 ms timer of scrollToSection fires, its animation ended.
FlagTimer ==
  /\ flagTimers > 0
  /\ NavCommit([NavCur EXCEPT
       !.isScrolling = FALSE,
       !.flagTimers = @ - 1,
       !.animations = [k \in DOMAIN @ |->
                         [@[k] EXCEPT !.after = IF @ > 0 THEN @ - 1 ELSE 0]]])

\* The 10 ms timer of throttle fires.
ThrottleTimer ==
  /\ inThrottle
  /\ NavCommit([NavCur EXCEPT !.inThrottle = FALSE])

\* A 100 ms timer of openMobileMenu fires.
FocusTimer ==
  /\ focusTimers > 0
  /\ NavCommit([NavCur EXCEPT !.focusTimers = @ - 1, !.navFocus = "menuitem"])

\* The timer of debouncedResize fires, 250 ms after the last resize event.
ResizeTimer ==
  /\ resizeTimer
  /\ NavCommit(handleResize([NavCur EXCEPT !.resizeTimer = FALSE]))

InitNav ==
  /\ markup = <<>>
  /\ Is(Constructed(markup, {}))
  /\ ModalConstructed
  /\ FormConstructed
  /\ \E toggle \in BOOLEAN, active \in {{}, {"home"}} :
       NavConstructed(toggle, 1, active, 767)
  /\ GalleryConstructed

\* Scrolling: the links, goToSection, the user and the animations.
NextNav ==
  \/ \E id \in LinkIds : LinkClick(id)
  \/ \E p \in Positions : goToSection(ElementIds[p])
  \/ \E p \in Positions : UserScroll(p)
  \/ \E k \in DOMAIN animations : AnimationFrame(k)
  \/ AnimationEnd
  \/ FlagTimer
  \/ ThrottleTimer

SpecNav == InitNav /\ [][NextNav]_vars

\* A page with a toggle, in a narrow window.
InitMenu ==
  /\ markup = <<>>
  /\ Is(Constructed(markup, {}))
  /\ ModalConstructed
  /\ FormConstructed
  /\ NavConstructed(TRUE, 1, {"home"}, 767)
  /\ GalleryConstructed

\* The mobile menu: toggle, links, backdrop, Escape and resizes, with the
\* timers and animations that these start.
NextMenu ==
  \/ ToggleClick
  \/ \E id \in LinkIds : LinkClick(id)
  \/ BackdropClick
  \/ EscapeKey
  \/ \E w \in Widths : ResizeEvent(w)
  \/ FocusTimer
  \/ ResizeTimer
  \/ \E k \in DOMAIN animations : AnimationFrame(k)
  \/ AnimationEnd
  \/ FlagTimer
  \/ ThrottleTimer

SpecMenu == InitMenu /\ [][NextMenu]_vars

\* ------------------------------------------------------------- properties
\* Vocabulary of the properties below.
Placeholders ==
  { "collection-placeholder.svg", "artwork-placeholder.svg",
    "avatar-placeholder.svg", "image-error.svg" }

\* The final error state: the error class and a placeholder as src.
ErrorTerminal(i) == "error" \in imgClass[i] /\ src[i] \in Placeholders

MarkedLoaded(i) == "loaded" \in imgClass[i]

InFlight(i) == {p \in BagToSet(probes) : p.img = i}

InFlightCount(i) == BagCardinality([p \in InFlight(i) |-> CopiesIn(p, probes)])

RetryPending(i) == {t \in BagToSet(timers) : t.kind = "retry" /\ t.img = i}

\* This step issues no probe for i / schedules no retry timer for i.
NoNewProbe(i) ==
  \A q \in BagToSet(probes') : q.img = i => CopiesIn(q, probes') <= CopiesIn(q, probes)

NoNewRetryTimer(i) ==
  \A t \in BagToSet(timers') :
     (t.kind = "retry" /\ t.img = i) => CopiesIn(t, timers') <= CopiesIn(t, timers)

\* C1 (as claimed): an element none of whose candidates ever decodes gets
\* exactly maxRetries = 3 retry passes and then enters the final error state:
\* once a pass has been started for it and neither a probe nor a retry timer
\* of it is pending any more, it is error-terminal and its retry timers have
\* started exactly 3 passes.
C1_ThreeRetriesThenTerminal ==
  \A i \in Imgs :
     ( /\ i \in loadingImages \/ ErrorTerminal(i)
       /\ i \notin loadedImages /\ ~MarkedLoaded(i)
       /\ InFlight(i) = {} /\ RetryPending(i) = {} )
     => (ErrorTerminal(i) /\ retryPasses[i] = maxRetries)

\* C1: the state the code reaches instead: a first pass has failed, its retry
\* timer has fired, no pass was started by it and nothing is pending.
C1_StuckAfterRetryTimer ==
  \E i \in Imgs :
     /\ i \in loadingImages /\ ~ErrorTerminal(i) /\ ~MarkedLoaded(i)
     /\ InFlight(i) = {} /\ RetryPending(i) = {}
     /\ failCount[i] = 1 /\ retryPasses[i] = 0

\* C2 (as claimed): every element for which a pass has been started eventually
\* is marked loaded or is in the final error state, given that probes, timers
\* and fetch events are delivered; none stays in loadingImages forever.
C2_EventuallyTerminal ==
  \A i \in {1, 2} :
     (i \in Imgs /\ i \in loadingImages)
       ~> (i \in Imgs /\ i \notin loadingImages
                      /\ (MarkedLoaded(i) \/ ErrorTerminal(i)))

\* The candidates of a pass in the order of the claim: webp, jpg, fallback,
\* data-src, src, the empty ones skipped (read after the step).
C3_PriorityOrder(i) ==
  LET all == << dataset'[i].webp, dataset'[i].jpg, dataset'[i].fallback,
                markup[i].dataSrc, src'[i] >>
      RECURSIVE Keep(_)
      Keep(k) == IF k > 5 THEN <<>>
                 ELSE IF all[k] = NoUrl THEN Keep(k + 1)
                 ELSE <<all[k]>> \o Keep(k + 1)
  IN  Keep(1)

\* C3: within a pass the probes are issued in priority order, one after the
\* other: a pass starts with the first candidate of the ordered list, candidate
\* k+1 is probed only in the step in which the probe of candidate k reports an
\* error, and the step in which a probe decodes issues no probe.
C3_ProbesInPriorityOrder ==
  [][ /\ \A q \in BagToSet(probes') :
           (q.kind = "format" /\ CopiesIn(q, probes') > CopiesIn(q, probes)) =>
              IF q.index = 1
                THEN q.formats = C3_PriorityOrder(q.img)
                ELSE \E p \in BagToSet(probes) :
                        /\ p = [q EXCEPT !.index = q.index - 1]
                        /\ ProbeError(p)
      /\ \A p \in BagToSet(probes) :
           (p.kind = "format" /\ ProbeLoad(p)) => NoNewProbe(p.img)
    ]_vars

\* C3 witness: the third candidate of a pass is being probed.
C3_ThirdCandidateProbed ==
  \E p \in BagToSet(probes) :
     p.kind = "format" /\ p.index = 3 /\ Len(p.formats) >= 3

\* C4: when a probe of a pass decodes, the source committed to the element is
\* that candidate (the first of the list to decode, the earlier ones having
\* failed), the element is marked loaded, the loading classes are gone from it
\* and from its container, and it has left loadingImages; whatever the length
\* of the list.
C4_FirstDecodedCommitted ==
  [][ \A p \in BagToSet(probes) :
        (p.kind = "format" /\ ProbeLoad(p)) =>
           /\ src'[p.img] = p.formats[p.index]
           /\ "loaded" \in imgClass'[p.img]
           /\ "loading" \notin imgClass'[p.img]
           /\ contClass'[p.img] \cap {"loading", "image-loading"} = {}
           /\ "loaded" \in contClass'[p.img]
           /\ p.img \notin loadingImages'
           /\ p.img \in loadedImages'
    ]_vars

\* C4 witness: webp and jpg have failed, the svg fallback has decoded and is
\* the source of the loaded element.
C4_FallbackCommitted ==
  \E i \in Imgs :
     /\ dataset[i].fallback # NoUrl /\ src[i] = dataset[i].fallback
     /\ MarkedLoaded(i) /\ i \in loadedImages /\ i \notin loadingImages

\* The triggers of a load for element i.
C5_Trigger(i) ==
  \/ LazyNotify(i)
  \/ LoadImage(i)
  \/ RefreshImages
  \/ \E j \in Imgs : InsertImage(j)
  \/ \E t \in BagToSet(timers) : t.kind = "retry" /\ t.img = i /\ TimerFire(t)

\* C5 (as claimed): a trigger arriving for an element that is already loaded
\* issues no probe for it and changes neither its src nor its classes nor
\* those of its container.
C5_LoadedIsIdempotent ==
  [][ \A i \in Imgs :
        (i \in loadedImages /\ MarkedLoaded(i) /\ C5_Trigger(i)) =>
           /\ NoNewProbe(i)
           /\ src'[i] = src[i]
           /\ imgClass'[i] = imgClass[i]
           /\ contClass'[i] = contClass[i]
    ]_vars

\* C6 (as claimed): once an element is in the final error state no step issues
\* a probe or schedules a retry timer for it, changes its src or marks it
\* loaded.
C6_ErrorTerminalIsFinal ==
  [][ \A i \in Imgs :
        ErrorTerminal(i) =>
           /\ NoNewProbe(i)
           /\ NoNewRetryTimer(i)
           /\ src'[i] = src[i]
           /\ "loaded" \in imgClass'[i] => "loaded" \in imgClass[i]
    ]_vars

\* C6: the final error state is reached.
C6_ErrorTerminalReached == \E i \in Imgs : ErrorTerminal(i)

\* C7 (as claimed): at most one off-DOM probe is in flight per element.
C7_OneProbePerElement == \A i \in Imgs : InFlightCount(i) <= 1

\* C8 (as claimed): an element enters the final error state on account of its
\* own failures only: the step that puts it there is its own
\* (maxRetries + 1)-th failure.
C8_OwnFailuresOnly ==
  [][ \A i \in Imgs :
        ("error" \notin imgClass[i] /\ "error" \in imgClass'[i])
           => failCount'[i] = maxRetries + 1
    ]_vars

\* C9: every value stored in retryAttempts is between 0 and maxRetries.
C9_RetryAttemptsBounded ==
  \A k \in DOMAIN retryAttempts :
     retryAttempts[k] >= 0 /\ retryAttempts[k] <= 3

\* C9 witness: a reference has used up its retries.
C9_RetriesUsedUp == \E k \in DOMAIN retryAttempts : retryAttempts[k] = 3

\* C10 (as claimed): the lazy observer's callback loads an element at most
\* once.
C10_LazyFiresOnce == \A i \in Imgs : lazyFired[i] <= 1

\* C11 (as claimed): the loader starts no probe for an element that the lazy
\* observer has not reported as intersecting: as long as the page has called
\* none of the public loading methods, an element with a probe in flight or
\* one in loadingImages has been through the lazy callback.
C11_NoProbeBeforeIntersecting ==
  \A i \in Imgs :
     (calls = 0 /\ (InFlight(i) # {} \/ i \in loadingImages))
        => lazyFired[i] >= 1

\* C12: an img inserted into the document after the loader was set up is
\* registered with the lazy observer in the step that inserts it, a registered
\* img stays registered until the observer has reported it, and the report
\* starts a pass (issues a probe) for it unless one is under way.
C12_InsertedIsRegistered ==
  [][ \A i \in Imgs :
        /\ InsertImage(i) => (inDoc'[i] /\ ioObserved'[i])
        /\ (ioObserved[i] /\ ~ioObserved'[i]) => LazyNotify(i)
        /\ (LazyNotify(i) /\ i \notin loadingImages) =>
              \E q \in BagToSet(probes') :
                 q.img = i /\ CopiesIn(q, probes') > CopiesIn(q, probes)
    ]_vars

\* C12 witness: an img that was not in the document at construction has been
\* inserted and is a target of the lazy observer (nothing else has touched it:
\* no lazy report, no failure, no call of the page).
C12_InsertedObserved ==
  \E i \in Imgs :
     /\ inDoc[i] /\ ioObserved[i] /\ observedFlag[i]
     /\ lazyFired[i] = 0 /\ failCount[i] = 0 /\ calls = 0

\* The placeholder of the innermost recognised ancestor of i.
C13_Innermost(i) ==
  LET anc == markup[i].anc
  IN  IF anc = <<>> THEN "image-error.svg"
      ELSE CASE anc[1] = "collection-card" -> "collection-placeholder.svg"
             [] anc[1] = "artwork-card"    -> "artwork-placeholder.svg"
             [] anc[1] = "about"           -> "avatar-placeholder.svg"

\* C13 (as claimed): the placeholder of an element in the final error state
\* is that of its innermost recognised ancestor, the generic one when it has
\* none.
C13_InnermostPlaceholder ==
  \A i \in Imgs : ErrorTerminal(i) => src[i] = C13_Innermost(i)

\* C14: the placeholder an element is given depends on its ancestors only:
\* with a .collection-card ancestor it is the collection placeholder, with no
\* recognised ancestor it is image-error.svg, and an element that is given a
\* placeholder again, in whatever state the loader is then, is given the same.
C14_PlaceholderByContext ==
  [][ \A i \in Imgs :
        ErrorTerminal(i)' =>
           /\ HasAncestor(markup[i], "collection-card")
                 => src'[i] = "collection-placeholder.svg"
           /\ markup[i].anc = <<>> => src'[i] = "image-error.svg"
           /\ ErrorTerminal(i) => src'[i] = src[i]
    ]_vars

\* C14 witness: an element with an artwork card inside a collection card
\* around it is in the final error state.
C14_NestedCardFailed ==
  \E i \in Imgs :
     /\ ErrorTerminal(i)
     /\ HasAncestor(markup[i], "collection-card")
     /\ HasAncestor(markup[i], "artwork-card")

\* This step is one call of handleImageError for i: the last candidate of a
\* pass of i fails, or an error event of i reaches the one listener.
OneErrorCall(i) ==
  \/ \E p \in BagToSet(probes) :
        p.img = i /\ p.index = Len(p.formats) /\ ProbeError(p)
  \/ inDoc[i] /\ listeners = 1 /\ LiveError(i)

\* C15: a call of handleImageError for an element whose retry counter has
\* reached 3 gives it, in that step, the context placeholder as src and the
\* alt text, sets the error class on the element and its container, removes
\* the loading classes from both, removes it from loadingImages and schedules
\* no timer.
C15_FinalErrorState ==
  [][ \A i \in Imgs :
        (OneErrorCall(i) /\ RetryCount(Cur, OriginalSrc(Cur, i)) = 3) =>
           /\ src'[i] = getContextualPlaceholder(i)
           /\ alt'[i] = "Image temporarily unavailable"
           /\ "error" \in imgClass'[i] /\ "error" \in contClass'[i]
           /\ "loading" \notin imgClass'[i]
           /\ contClass'[i] \cap {"loading", "image-loading"} = {}
           /\ wrapped'[i]
           /\ i \notin loadingImages'
           /\ timers' = timers
    ]_vars

\* C15 witness: the counter of a reference has reached 3 and an element of
\* that reference, having failed fewer than 4 times itself, is in the final
\* error state with the alt text.
C15_FinalAfterThree ==
  \E i \in Imgs :
     /\ ErrorTerminal(i) /\ alt[i] = "Image temporarily unavailable"
     /\ i \notin loadingImages
     /\ \E k \in DOMAIN retryAttempts : retryAttempts[k] = 3

\* C16: the src of the live element is written only with the candidate of a
\* probe that decodes in that step, or with the placeholder in the step that
\* puts the element in the final error state; and the failure of a candidate
\* that is not the last of its pass changes nothing of the element (src, own
\* fetch, classes, container, alt) nor retryAttempts nor failedImages.
C16_FailedCandidateIsInert ==
  [][ /\ \A i \in Imgs :
           src'[i] # src[i] =>
              \/ \E p \in BagToSet(probes) :
                    p.img = i /\ ProbeLoad(p) /\ src'[i] = p.formats[p.index]
              \/ src'[i] \in Placeholders /\ "error" \in imgClass'[i]
      /\ \A p \in BagToSet(probes) :
           (p.kind = "format" /\ p.index < Len(p.formats) /\ ProbeError(p)) =>
              /\ src'[p.img] = src[p.img] /\ live'[p.img] = live[p.img]
              /\ imgClass'[p.img] = imgClass[p.img]
              /\ contClass'[p.img] = contClass[p.img]
              /\ wrapped'[p.img] = wrapped[p.img]
              /\ alt'[p.img] = alt[p.img]
              /\ retryAttempts' = retryAttempts
              /\ failedImages' = failedImages
    ]_vars

\* C16 witness: the first candidate of a pass has failed, the second is being
\* probed and the live element still has the src of the markup.
C16_SecondCandidateProbed ==
  \E p \in BagToSet(probes) :
     /\ p.kind = "format" /\ p.index = 2
     /\ src[p.img] = markup[p.img].src0
     /\ ~MarkedLoaded(p.img) /\ "error" \notin imgClass[p.img]

\* C17: a call of handleImageError for a reference whose counter c is below 3
\* makes the counter c + 1, schedules exactly one timer, a retry of the same
\* element with a delay of 1 s, 2 s, 4 s for c = 0, 1, 2, and leaves the src
\* and the classes of the element as they were.
C17_BackoffSchedule ==
  [][ \A i \in Imgs :
        LET key == OriginalSrc(Cur, i)
            c   == RetryCount(Cur, key)
            ms  == CASE c = 0 -> 1000 [] c = 1 -> 2000 [] OTHER -> 4000
        IN  (OneErrorCall(i) /\ c < 3) =>
               /\ key \in DOMAIN retryAttempts' /\ retryAttempts'[key] = c + 1
               /\ timers' = timers (+) SetToBag({[kind |-> "retry", img |-> i,
                                                  delay |-> ms]})
               /\ src'[i] = src[i] /\ imgClass'[i] = imgClass[i]
    ]_vars

\* C17 witness: the third failure of a reference has scheduled the 4 s retry
\* of an element that is not in the error state.
C17_ThirdBackoffPending ==
  \E i \in Imgs :
     /\ [kind |-> "retry", img |-> i, delay |-> 4000] \in BagToSet(timers)
     /\ "error" \notin imgClass[i]
     /\ \E k \in DOMAIN retryAttempts : retryAttempts[k] = 3

\* C18 (as claimed): an error event of an img in the document runs
\* handleImageError once, however often refreshImages was called: the counter
\* of its reference advances by at most one in that step, and at most one
\* retry timer is scheduled by it.
C18_OneHandlerPerErrorEvent ==
  [][ \A i \in Imgs :
        (inDoc[i] /\ LiveError(i)) =>
           LET key == OriginalSrc(Cur, i)
           IN  /\ key \in DOMAIN retryAttempts'
                    => retryAttempts'[key] <= RetryCount(Cur, key) + 1
               /\ BagCardinality(timers') <= BagCardinality(timers) + 1
    ]_vars

\* C19: loadImageWithFallback first probes the primary source alone; the
\* fallback source is probed only in the step in which the primary probe
\* fails; the source of the probe that decodes is committed and the element
\* and its container are marked loaded; handleImageError is run once, and
\* only, when the primary has failed and there is no fallback or the fallback
\* has failed too.
C19_FallbackAfterPrimary ==
  [][ /\ \A q \in BagToSet(probes') :
           (q.kind = "fallback" /\ CopiesIn(q, probes') > CopiesIn(q, probes)) =>
              IF q.index = 1
                THEN \E f \in {NoUrl, "alt.svg"} : LoadImageWithFallback(q.img, f)
                ELSE \E p \in BagToSet(probes) :
                        p = [q EXCEPT !.index = 1] /\ ProbeError(p)
      /\ \A p \in BagToSet(probes) :
           p.kind = "fallback" =>
              /\ ProbeLoad(p) =>
                    /\ src'[p.img] = p.formats[p.index]
                    /\ {"loaded"} \subseteq imgClass'[p.img] \cap contClass'[p.img]
                    /\ "loading" \notin imgClass'[p.img] \cup contClass'[p.img]
                    /\ NoNewProbe(p.img)
                    /\ failCount' = failCount
              /\ (ProbeError(p) /\ p.index < Len(p.formats)) =>
                    /\ CopiesIn([p EXCEPT !.index = 2], probes')
                         = CopiesIn([p EXCEPT !.index = 2], probes) + 1
                    /\ failCount' = failCount /\ retryAttempts' = retryAttempts
                    /\ src'[p.img] = src[p.img]
              /\ (ProbeError(p) /\ p.index = Len(p.formats)) =>
                    /\ NoNewProbe(p.img)
                    /\ failCount'[p.img] = Min(failCount[p.img] + 1, maxRetries + 1)
                    /\ BagCardinality(timers') <= BagCardinality(timers) + 1
    ]_vars

\* C19 witness: the primary source has failed, the fallback source has
\* decoded and is the src of the element, which is marked loaded.
C19_FallbackSourceCommitted ==
  \E i \in Imgs : src[i] = "alt.svg" /\ MarkedLoaded(i)

\* C20 (as claimed): whenever the lightbox is open (isOpen, the latest call
\* that passed its guard being open) it is visible, display flex and
\* aria-hidden false, and the scroll of the body is locked.
C20_OpenIsVisible ==
  isOpen => (display = "flex" /\ ariaHidden = "false" /\ bodyPosition = "fixed")

\* C21 (as claimed): at most one focus-trap keydown listener is installed at
\* any time, and when the lightbox is closed and none of its timers is pending
\* none is installed.
C21_FocusTrapRemoved ==
  /\ trapListeners <= 1
  /\ (~isOpen /\ modalTimers = <<>>) => trapListeners = 0

\* C22: in a gallery of n >= 2 artworks next takes index i to (i + 1) mod n
\* and previous takes it to (i - 1) mod n, each undoing the other; with
\* n <= 1 both change nothing; and after every step of the lightbox
\* currentIndex is in 0..n-1 and currentArtwork is currentGallery[currentIndex].
C22_CyclicNavigation ==
  [][ LET n == Len(currentGallery)
      IN  /\ ModalNext =>
                IF n >= 2 THEN currentIndex' = (currentIndex + 1) % n
                ELSE UNCHANGED vars
          /\ ModalPrevious =>
                IF n >= 2 THEN currentIndex' = (currentIndex + n - 1) % n
                ELSE UNCHANGED vars
          /\ n >= 2 =>
                \A i \in 0..(n - 1) :
                   /\ StepBack(StepForward(i, n), n) = i
                   /\ StepForward(StepBack(i, n), n) = i
          /\ currentGallery' # <<>> =>
                /\ currentIndex' \in 0..(Len(currentGallery') - 1)
                /\ currentArtwork' = currentGallery'[currentIndex' + 1]
    ]_vars

\* C22 witness: a gallery of three opened at its last artwork has been stepped
\* on to its first: the preloads of both are in flight, none has completed.
C22_WrappedToFirst ==
  /\ Len(currentGallery) = 3 /\ currentIndex = 0 /\ currentArtwork = "a"
  /\ modalCalls = 1 /\ modalImage.src = "" /\ ~preloadFailed
  /\ BagToSet(preloads) = {"a", "c"}

\* C23 (as claimed): once every preload has completed, all of them with
\* success, the image shown in the lightbox is that of currentArtwork.
C23_ShownIsCurrent ==
  (preloads = EmptyBag /\ ~preloadFailed /\ currentArtwork # NoArtwork)
     => (modalImage.src = currentArtwork /\ modalImage.alt = currentArtwork)

\* -------------------------------------------------------- the contact form
Rejected ==
  [type |-> "error", text |-> "Please correct the errors above and try again.",
   display |-> "block"]

SubmissionFailed ==
  [type |-> "error",
   text |-> "Sorry, there was an error sending your message. Please try again or contact me directly via email.",
   display |-> "block"]

\* C24: at most one submission is in flight; a handleSubmit call made while
\* isSubmitting is true changes nothing and starts no submitForm call;
\* isSubmitting is true exactly while a submitForm call is pending, and the
\* submit button is disabled then.
C24_OneSubmissionInFlight ==
  /\ [](/\ submission <= 1
        /\ isSubmitting <=> submission = 1
        /\ isSubmitting => submitDisabled)
  /\ [][(handleSubmit /\ isSubmitting) => UNCHANGED vars]_vars

\* C24 witness: a submission is in flight, the button disabled and the
\* loading status shown.
C24_SubmissionPending ==
  /\ isSubmitting /\ submission = 1 /\ submitDisabled
  /\ status.type = "loading" /\ status.display = "block"

\* C25: a handleSubmit call on a form with a field that fails validation
\* starts no submitForm call, leaves isSubmitting false and the button
\* enabled, keeps the text of every input, and shows the error status
\* 'Please correct the errors above and try again.'.
C25_InvalidIsRejected ==
  [][(/\ handleSubmit
      /\ ~isSubmitting
      /\ \E f \in FieldSet : ~ValidateResult(fields, f))
        => /\ submission' = submission
           /\ ~isSubmitting' /\ ~submitDisabled'
           /\ \A f \in FieldSet : fields'[f].element = fields[f].element
           /\ status' = Rejected]_vars

\* C25 witness: a submit of a form with a text in one field and an invalid
\* field has been rejected.
C25_RejectedWithText ==
  /\ status = Rejected /\ ~isSubmitting /\ ~submitDisabled /\ submission = 0
  /\ \E f \in FieldSet : fields[f].element # EmptyText
  /\ \E f \in FieldSet : fields[f].errorDisplay = "block"

\* C26: every accepted submission ends with isSubmitting false and the button
\* enabled, however submitForm ends; on success the form is reset, on failure
\* the texts entered are kept.
C26_SubmissionEnds ==
  /\ isSubmitting ~> (~isSubmitting /\ ~submitDisabled)
  /\ [][/\ SubmitSettles("success")
             => \A f \in FieldSet :
                  /\ fields'[f].element = EmptyText
                  /\ fields'[f].value = EmptyText
                  /\ ~fields'[f].isValid /\ ~fields'[f].touched
        /\ (\E o \in Outcomes \ {"success"} : SubmitSettles(o))
             => \A f \in FieldSet :
                  /\ fields'[f].element = fields[f].element
                  /\ fields'[f].value = fields[f].value]_vars

\* C26 witness: a submission has failed; the form is idle again, the button
\* enabled, and the valid texts are still in the inputs.
C26_FailedKeepsTexts ==
  /\ status = SubmissionFailed /\ submits > 0
  /\ ~isSubmitting /\ ~submitDisabled /\ submission = 0
  /\ \A f \in FieldSet : fields[f].element # EmptyText /\ fields[f].isValid

\* C27 (as claimed): an error or loading status that is shown stays shown
\* until the next showStatus call, which shows a status too.
C27_OnlySuccessIsHidden ==
  [][(status.type \in {"error", "loading"} /\ status.display = "block")
        => status'.display = "block"]_vars

\* The latest validateField call of the message field returned true exactly
\* for a trimmed value of 10 to 2000 characters.
MessageLengthRule ==
  lastResult["message"].result # "none"
    => (lastResult["message"].result = "true"
          <=> lastResult["message"].value.len \in 10..2000)

\* The latest validateField call of a required field with an empty trimmed
\* value gave 'This field is required'.
RequiredRule ==
  \A f \in FieldSet :
    (/\ lastResult[f].result # "none"
     /\ validators[f].required
     /\ lastResult[f].value.len = 0)
       => /\ lastResult[f].result = "false"
          /\ lastResult[f].errorMessage = "This field is required"

\* C28 (as claimed): the two rules above, and field.isValid always equals the
\* result of the field's latest validateField call.
C28_IsValidIsLatestResult ==
  /\ MessageLengthRule
  /\ RequiredRule
  /\ \A f \in FieldSet :
       lastResult[f].result # "none"
         => (fields[f].isValid <=> lastResult[f].result = "true")

\* C28 (amended): the two rules above, and field.isValid equals the result of
\* the field's latest validateField call unless resetForm has run since that
\* call, when it is false.
C28_IsValidUntilReset ==
  /\ MessageLengthRule
  /\ RequiredRule
  /\ \A f \in FieldSet :
       lastResult[f].result # "none"
         => (fields[f].isValid
               <=> (lastResult[f].result = "true" /\ ~lastResult[f].reset))

\* C28 witness: a message of 2000 characters between white space was found
\* valid, the form has been reset since, and the empty email has then been
\* found required.
C28_ResetAfterValid ==
  /\ lastResult["message"].result = "true" /\ lastResult["message"].reset
  /\ lastResult["message"].value.len = 2000
  /\ ~fields["message"].isValid
  /\ lastResult["email"].errorMessage = "This field is required"
  /\ ~lastResult["email"].reset

\* ---------------------------------------------------------- the navigation
\* C29 (as claimed): isScrolling is true as long as a smooth-scroll animation
\* is running, and while one is running the active section changes only by
\* another scrollToSection call, never by the scroll listener.
C29_FlagCoversAnimations ==
  /\ [](animations # << >> => isScrolling)
  /\ [][(/\ animations # << >>
         /\ ~\E p \in Positions : LinkClick(ElementIds[p]) \/ goToSection(ElementIds[p]))
           => currentSection' = currentSection]_vars

\* The menu has class active exactly when the three attributes say open.
MenuConsistent ==
  menuActive <=> /\ menuAriaHidden = "false"
                 /\ toggleAriaExpanded = "true"
                 /\ bodyOverflow = "hidden"

\* C30: on a page with a toggle the mobile menu is consistent in every state,
\* and it is closed after an Escape keydown and after handleResize has run in
\* a window of width 768 or more.
C30_MenuConsistent ==
  /\ [](mobileToggle => MenuConsistent)
  /\ [][(mobileToggle /\ (EscapeKey \/ (ResizeTimer /\ innerWidth >= 768)))
          => ~menuActive']_vars

\* C30 witness: the menu, opened in the narrow window, is closed in a window
\* of width 768 whose resize has been handled; the body scrolls again.
C30_ClosedWhenWide ==
  /\ mobileToggle /\ ~menuActive /\ innerWidth = 768 /\ ~resizeTimer
  /\ menuAriaHidden = "true" /\ toggleAriaExpanded = "false"
  /\ bodyOverflow = "" /\ navFocus = "toggle"

\* C31 (as claimed): the navbar and the mobile menu mark the same section:
\* the active link of each, if it has one, is the link of currentSection, and
\* no link of another section carries the active class or aria-current.
C31_MenusMarkCurrent ==
  /\ desktopActive = mobileActive
  /\ desktopActive \subseteq {currentSection}
  /\ mobileActive \subseteq {currentSection}

\* ---------------------------------------------------------------------------
\* The gallery and the collection cards.  A card is the artwork it shows: the
\* fade-in classes and the lazy loading of its image change nothing else of
\* the page, and a click on a card only opens the lightbox.

\* The state of the gallery after a handler.
GalAssign(g) ==
  /\ allArtwork' = g.artwork /\ filteredArtwork' = g.filteredArtwork
  /\ currentFilter' = g.currentFilter /\ currentPage' = g.currentPage
  /\ maxPages' = g.maxPages /\ galleryGrid' = g.galleryGrid
  /\ loadMoreBtn' = g.loadMoreBtn /\ activeFilter' = g.activeFilter
  /\ announcements' = g.announcements

\* The state after a handler, and the rest of the page as it was.
GalCommit(g) == GalAssign(g) /\ UNCHANGED outsideGallery

\* A click, Enter or Space on a filter button.
FilterButton(filter) ==
  /\ announcements < MaxAnnouncements
  /\ GalCommit(handleFilterChange(GalCur, filter))

\* A click on #load-more-btn (a hidden button takes no click).
LoadMoreClick ==
  /\ loadMoreBtn.display # "none"
  /\ GalCommit(loadMoreArtwork(GalCur))

\* The artwork a caller of addArtwork passes: one new illustration, or an
\* array of an illustration and a concept art.
NewArtwork ==
  LET n == Len(allArtwork)
  IN  { << Item(n + 1, "illustration", "fantasy-series") >>,
        << Item(n + 1, "illustration", "fantasy-series"),
           Item(n + 2, "concept-art", "sci-fi-series") >> }

\* gallery.addArtwork(newArtwork)
AddArtwork(newArtwork) ==
  /\ Len(allArtwork) + Len(newArtwork) <= Len(artworkData) + MaxAdded
  /\ GalCommit(addArtwork(GalCur, newArtwork))

\* The 1000 ms timer of announceFilterChange removes its element.
AnnouncementTimer ==
  /\ announcements > 0
  /\ GalCommit([GalCur EXCEPT !.announcements = @ - 1])

\* viewCollection(collectionId): the 'filterGallery' event it dispatches has
\* no listener, so the gallery stays as it is; the page is scrolled to
\* #gallery and a 100 ms timer is set for the header offset.
viewCollection(collectionId) ==
  /\ scrollAdjust < MaxViews
  /\ scrollAdjust' = scrollAdjust + 1
  /\ NavAssign(ScrollTo(NavCur, PositionOf("gallery")))
  /\ UNCHANGED << loaderVars, modalVars, formVars, galleryVars >>

\* The 100 ms timer of viewCollection: window.scrollBy(0, -headerHeight),
\* which leaves the page at the same section.
ScrollAdjustTimer ==
  /\ scrollAdjust > 0
  /\ scrollAdjust' = scrollAdjust - 1
  /\ NavAssign(ScrollTo(NavCur, position))
  /\ UNCHANGED << loaderVars, modalVars, formVars, galleryVars >>

InitGallery ==
  /\ markup = <<>>
  /\ Is(Constructed(markup, {}))
  /\ ModalConstructed
  /\ FormConstructed
  /\ NavIdle
  /\ GalleryConstructed

NextGallery ==
  \/ \E filter \in Filters : FilterButton(filter)
  \/ LoadMoreClick
  \/ \E newArtwork \in NewArtwork : AddArtwork(newArtwork)
  \/ AnnouncementTimer
  \/ \E collectionId \in CollectionIds : viewCollection(collectionId)
  \/ ScrollAdjustTimer
  \/ ThrottleTimer

SpecGallery == InitGallery /\ [][NextGallery]_vars

\* C32: whatever filter buttons, load-more clicks and addArtwork calls came
\* before, the grid shows the first min(|filteredArtwork|, currentPage *
\* itemsPerPage) items of filteredArtwork, each once and in order;
\* filteredArtwork is the artwork of the current filter's category (all of it
\* for 'all'); and currentPage is at most maxPages unless filteredArtwork is
\* empty.
C32_GridIsFirstPages ==
  LET shown == Min(Len(filteredArtwork), currentPage * itemsPerPage)
  IN  /\ Len(galleryGrid) = shown
      /\ \A i \in 1..shown : galleryGrid[i] = filteredArtwork[i]
      /\ \A i, j \in 1..Len(galleryGrid) :
           galleryGrid[i] = galleryGrid[j] => i = j
      /\ filteredArtwork =
           SelectSeq(allArtwork,
                     LAMBDA item : currentFilter \in {"all", item.category})
      /\ filteredArtwork # << >> => currentPage <= maxPages

\* C32, its case: artwork was added, a category was chosen and its second page
\* loaded, so that the grid holds more than one page of that category.
C32_SecondPageOfCategory ==
  /\ currentFilter = "illustration" /\ currentPage = 2
  /\ Len(allArtwork) > Len(artworkData)
  /\ Len(galleryGrid) > itemsPerPage

\* The artwork that belongs to a collection.
InCollection(collectionId) ==
  SelectSeq(allArtwork, LAMBDA item : item.collection = collectionId)

\* C33 (as claimed): activating a collection card filters the gallery to that
\* collection: a step of viewCollection(id) ends with the grid showing exactly
\* the artwork of collection id.  The step is the same for every id, so the
\* formula asks for it of some id the step can be of.
C33_CollectionIsShown ==
  [][(\E collectionId \in CollectionIds : viewCollection(collectionId))
       => \E collectionId \in CollectionIds :
            /\ viewCollection(collectionId)
            /\ galleryGrid' = InCollection(collectionId)]_vars

====
